---- MODULE Spec2Model ----
(***************************************************************************)
(* Model of the mari REPL engine: the child interrupt manager              *)
(* (commands/signal.js), the mode state machine (repl/modes.js), the key   *)
(* classifier (repl/input.js), the variable type engine                    *)
(* (config/variables.js) and the REPL controller (repl/index.js, latest    *)
(* revision).                                                              *)
(*                                                                         *)
(* JavaScript strings are sequences of one-character strings.  Variable    *)
(* values are tagged records: Num(n), Str(s), Undef, NaN.                  *)
(*                                                                         *)
(* Asynchrony: the input handler calls the async key listener for every    *)
(* key of a chunk without awaiting it.  A listener runs synchronously up   *)
(* to its first await; what follows the await is a continuation.  A        *)
(* continuation behind an already settled promise sits in microQ and runs  *)
(* when the dispatch loop of the current chunk has returned; one behind    *)
(* real I/O (file access, a child process) sits in ioTasks and runs when   *)
(* that I/O completes.                                                     *)
(***************************************************************************)
EXTENDS Integers, Sequences, FiniteSets, TLC

\* ---------------------------------------------------------------- bounds
MaxBuf == 2      \* longest edit buffer the model types
MaxProcs == 2    \* child processes spawned in one behaviour
MaxTasks == 2    \* continuations pending at the same time
MaxListeners == 3  \* entries into VOICE in one behaviour
MaxPieces == 3   \* texts a command template is made of
MaxLines == 3    \* lines printed while a Round is the current one
MaxValue == 8    \* largest number (in halves) given to the type engine
MaxKeys == 2     \* keypresses in the byte stream given to the decoder
MaxCuts == 2     \* places where that stream is cut into chunks
MaxOpens == 2    \* times the jog wheel device is opened in one behaviour

\* ------------------------------------------------------- string helpers
EmptyStr == << >>

Last(s) == s[Len(s)]

\* String.prototype.slice(0, -1)
SliceOffLast(s) == IF Len(s) = 0 THEN s ELSE SubSeq(s, 1, Len(s) - 1)

Digits == {"0", "1", "2", "3", "4", "5", "6", "7", "8", "9"}

DigitVal(c) ==
  CASE c = "0" -> 0 [] c = "1" -> 1 [] c = "2" -> 2 [] c = "3" -> 3
    [] c = "4" -> 4 [] c = "5" -> 5 [] c = "6" -> 6 [] c = "7" -> 7
    [] c = "8" -> 8 [] c = "9" -> 9

DigitChar(d) ==
  CASE d = 0 -> "0" [] d = 1 -> "1" [] d = 2 -> "2" [] d = 3 -> "3"
    [] d = 4 -> "4" [] d = 5 -> "5" [] d = 6 -> "6" [] d = 7 -> "7"
    [] d = 8 -> "8" [] d = 9 -> "9"

\* ----------------------------------------------------------- JS values
\* A number is counted in halves, so that a float with one binary digit
\* and Math.floor can be told apart from an integer: Num(n) is n / Unit.
Unit == 2

Num(n) == [k |-> "num", n |-> n]

\* An integer as a number.
Whole(i) == Num(Unit * i)

\* A Date, counted in days.
Date(d) == [k |-> "date", n |-> d]
Str(s) == [k |-> "str", s |-> s]
Undef == [k |-> "undef"]
NaN == [k |-> "nan"]
Null == [k |-> "null"]

IsNum(v) == v.k = "num"

\* ------------------------------------------------ variable type engine
\* The number of leading decimal digits of s.
RECURSIVE DigitPrefixLen(_)
DigitPrefixLen(s) ==
  IF Len(s) = 0 \/ s[1] \notin Digits THEN 0 ELSE 1 + DigitPrefixLen(Tail(s))

RECURSIVE DigitsValue(_, _)
DigitsValue(s, n) ==
  IF n = 0 THEN 0 ELSE 10 * DigitsValue(s, n - 1) + DigitVal(s[n])

\* parseInt(input, 10): an optional sign, then the longest run of digits;
\* NaN when there is no digit.  Whatever follows the digits is ignored.
ParseInt(input) ==
  LET signed == Len(input) > 0 /\ input[1] \in {"+", "-"}
      body == IF signed THEN Tail(input) ELSE input
      n == DigitPrefixLen(body)
      mag == DigitsValue(body, n)
  IN IF n = 0 THEN NaN
     ELSE IF signed /\ input[1] = "-" THEN Whole(0 - mag) ELSE Whole(mag)

\* parseFloat(input): an optional sign, digits, then an optional point and
\* digits; NaN when there is no digit. The fraction is counted to the half
\* below (the strings of the model carry the fractions .0 and .5 only).
ParseFloat(input) ==
  LET signed == Len(input) > 0 /\ input[1] \in {"+", "-"}
      body == IF signed THEN Tail(input) ELSE input
      n == DigitPrefixLen(body)
      rest == SubSeq(body, n + 1, Len(body))
      fn == IF Len(rest) > 0 /\ rest[1] = "." THEN DigitPrefixLen(Tail(rest))
            ELSE 0
      half == IF fn > 0 /\ DigitVal(rest[2]) >= 5 THEN 1 ELSE 0
      mag == Unit * DigitsValue(body, n) + half
  IN IF n = 0 /\ fn = 0 THEN NaN
     ELSE IF signed /\ input[1] = "-" THEN Num(0 - mag) ELSE Num(mag)

\* Array.prototype.indexOf, 0-based, -1 when absent.
RECURSIVE IndexOfFrom(_, _, _)
IndexOfFrom(arr, x, i) ==
  IF i > Len(arr) THEN -1
  ELSE IF arr[i] = x THEN i - 1 ELSE IndexOfFrom(arr, x, i + 1)

IndexOf(arr, x) == IndexOfFrom(arr, x, 1)

Includes(arr, x) == IndexOf(arr, x) >= 0

\* parseValue(input, def): Null stands for the `null` of an invalid input.
ParseValue(input, def) ==
  CASE def.type = "int" ->
         LET intVal == ParseInt(input) IN IF intVal = NaN THEN Null ELSE intVal
    [] def.type = "float" ->
         LET floatVal == ParseFloat(input)
         IN IF floatVal = NaN THEN Null ELSE floatVal
    [] def.type = "enum" ->
         IF Includes(def.range, Str(input)) THEN Str(input) ELSE Null
    [] OTHER -> Str(input)

\* Number.prototype.toString for an integer.
RECURSIVE NatStr(_)
NatStr(n) ==
  IF n < 10 THEN <<DigitChar(n)>> ELSE NatStr(n \div 10) \o <<DigitChar(n % 10)>>

IntStr(n) == IF n < 0 THEN <<"-">> \o NatStr(0 - n) ELSE NatStr(n)

\* String(number) of n halves: the integer part, then ".5" if any.
NumStr(n) ==
  LET a == IF n < 0 THEN 0 - n ELSE n
      digits == NatStr(a \div Unit)
                  \o (IF a % Unit = 0 THEN << >> ELSE <<".", "5">>)
  IN IF n < 0 THEN <<"-">> \o digits ELSE digits

\* String(value)
ToStr(v) ==
  CASE v.k = "num" -> NumStr(v.n)
    [] v.k = "str" -> v.s
    [] v.k = "nan" -> <<"N", "a", "N">>
    [] v.k = "undef" -> <<"u", "n", "d", "e", "f", "i", "n", "e", "d">>
    [] OTHER -> <<"n", "u", "l", "l">>

\* Math.floor of n halves.
Floor(n) == n - (n % Unit)

\* The groups of format.match(/%(-?)(\d*)(?:\.(\d+))?([dfsxXeE%])/) for a
\* format that begins with its specifier; NoMatch when it does not match.
NoMatch == [matched |-> FALSE]

\* The specifier group and what follows the match.
MatchSpecifier(leftAlign, width, precision, rest) ==
  IF Len(rest) = 0 \/ rest[1] \notin {"d", "f", "s", "x", "X", "e", "E", "%"}
  THEN NoMatch
  ELSE [matched |-> TRUE, leftAlign |-> leftAlign, width |-> width,
        precision |-> precision, specifier |-> rest[1], after |-> Tail(rest)]

\* The precision group (?:\.(\d+))?, pn digits long; undefined when absent.
MatchPrecision(leftAlign, width, rest, pn) ==
  IF pn > 0
  THEN MatchSpecifier(leftAlign, width, Str(SubSeq(rest, 2, pn + 1)),
                      SubSeq(rest, pn + 2, Len(rest)))
  ELSE MatchSpecifier(leftAlign, width, Undef, rest)

\* The width group (\d*), wn digits long.
MatchWidth(leftAlign, rest, wn) ==
  MatchPrecision(leftAlign, SubSeq(rest, 1, wn),
                 SubSeq(rest, wn + 1, Len(rest)),
                 IF wn < Len(rest) /\ rest[wn + 1] = "."
                 THEN DigitPrefixLen(SubSeq(rest, wn + 2, Len(rest))) ELSE 0)

\* The flag group (-?).
MatchFlag(leftAlign, rest) == MatchWidth(leftAlign, rest, DigitPrefixLen(rest))

MatchFormat(format) ==
  IF Len(format) < 2 \/ format[1] # "%" THEN NoMatch
  ELSE IF format[2] = "-" THEN MatchFlag(TRUE, SubSeq(format, 3, Len(format)))
  ELSE MatchFlag(FALSE, Tail(format))

\* A string of n copies of a character.
RECURSIVE Repeat(_, _)
Repeat(ch, n) == IF n <= 0 THEN << >> ELSE <<ch>> \o Repeat(ch, n - 1)

\* Number.prototype.toFixed(digits) of n halves: with no digit the nearest
\* integer, a half going away from zero; else the digits of the fraction.
ToFixed(n, digits) ==
  LET a == IF n < 0 THEN 0 - n ELSE n
      body == IF digits = 0 THEN NatStr((a + 1) \div Unit)
              ELSE NatStr(a \div Unit) \o <<".">>
                     \o <<IF a % Unit = 0 THEN "0" ELSE "5">>
                     \o Repeat("0", digits - 1)
  IN IF n < 0 THEN <<"-">> \o body ELSE body

\* parseInt(width, 10) || 0
WidthNum(width) ==
  IF DigitPrefixLen(width) = 0 THEN 0 ELSE ParseInt(width).n \div Unit

\* sprintf: the switch on the specifier, for a number and d, f and s.
SprintfResult(m, value) ==
  CASE m.specifier = "d" -> NumStr(Floor(value.n))
    [] m.specifier = "f" ->
         IF m.precision # Undef
         THEN ToFixed(value.n, ParseInt(m.precision.s).n \div Unit)
         ELSE NumStr(value.n)
    [] OTHER -> ToStr(value)

\* sprintf: the width padding of result, then the rest of the format.
PadToWidth(m, result, widthNum) ==
  (IF m.leftAlign THEN result \o Repeat(" ", widthNum - Len(result))
   ELSE Repeat(IF Len(m.width) > 0 /\ m.width[1] = "0" THEN "0" ELSE " ",
               widthNum - Len(result)) \o result)
    \o m.after

\* sprintf: after format.match.
SprintfMatch(format, value, m) ==
  IF ~m.matched THEN format
  ELSE PadToWidth(m, SprintfResult(m, value), WidthNum(m.width))

\* sprintf(format, value)
Sprintf(format, value) ==
  IF format = EmptyStr THEN ToStr(value)
  ELSE SprintfMatch(format, value, MatchFormat(format))

\* formatValue(value, def)
FormatValue(v, def) ==
  IF v = Null \/ v = Undef THEN EmptyStr
  ELSE IF def.type \in {"int", "float"} /\ def.format # EmptyStr /\ IsNum(v)
  THEN Sprintf(def.format, v)
  ELSE ToStr(v)

Min(a, b) == IF a < b THEN a ELSE b
Max(a, b) == IF a > b THEN a ELSE b

\* value + delta then the clamp of incrementValue / decrementValue;
\* arithmetic on undefined or NaN yields NaN, which the clamp keeps.
AddClamp(v, delta, def) ==
  IF ~IsNum(v) THEN NaN
  ELSE LET newVal == v.n + delta
           clamped == IF Len(def.range) = 2
                      THEN Max(def.range[1], Min(def.range[2], newVal))
                      ELSE newVal
       IN IF def.type = "int" THEN Num(Floor(clamped)) ELSE Num(clamped)

\* def.step || 1
StepOf(def) == IF def.step = 0 THEN Unit ELSE def.step

\* parseDateRange(def.range): null unless the range holds two dates.
ParseDateRange(range) ==
  IF Len(range) = 2 THEN [min |-> range[1], max |-> range[2]] ELSE Null

\* addDays(value, days), then the clamp of the date case.
AddDaysClamp(v, delta, def) ==
  IF v.k # "date" THEN v
  ELSE LET newDate == v.n + (delta \div Unit)
           range == ParseDateRange(def.range)
           low == IF range # Null /\ newDate < range.min THEN range.min
                  ELSE newDate
       IN Date(IF range # Null /\ low > range.max THEN range.max ELSE low)

\* incrementValue with an enum that stops at its last value.
IncrementValueNoWrap(v, def) ==
  CASE def.type \in {"int", "float"} -> AddClamp(v, StepOf(def), def)
    [] def.type = "date" -> AddDaysClamp(v, StepOf(def), def)
    [] def.type = "enum" ->
         IF Len(def.range) = 0 THEN v
         ELSE def.range[Min(IndexOf(def.range, v) + 1, Len(def.range) - 1) + 1]
    [] OTHER -> v

IncrementValue(v, def) ==
  CASE def.type \in {"int", "float"} -> AddClamp(v, StepOf(def), def)
    [] def.type = "date" -> AddDaysClamp(v, StepOf(def), def)
    [] def.type = "enum" ->
         IF Len(def.range) = 0 THEN v
         ELSE def.range[((IndexOf(def.range, v) + 1) % Len(def.range)) + 1]
    [] OTHER -> v

DecrementValue(v, def) ==
  CASE def.type \in {"int", "float"} -> AddClamp(v, 0 - StepOf(def), def)
    [] def.type = "date" -> AddDaysClamp(v, 0 - StepOf(def), def)
    [] def.type = "enum" ->
         IF Len(def.range) = 0 THEN v
         ELSE LET currentIdx == IndexOf(def.range, v)
                  prevIdx == IF currentIdx <= 0 THEN Len(def.range) - 1
                             ELSE currentIdx - 1
              IN def.range[prevIdx + 1]
    [] OTHER -> v

\* ------------------------------------------------------------ activity
\* The one activity of the model, in the declaration order of its file.
VarNames == <<"QTY", "TYPE">>

Definitions ==
  [QTY |-> [type |-> "int", range |-> <<Unit, 3 * Unit>>, step |-> Unit,
            hotkey |-> "q", default |-> Whole(2), value |-> Undef,
            format |-> EmptyStr],
   TYPE |-> [type |-> "enum", range |-> <<Str(<<"c">>), Str(<<"1">>)>>,
             step |-> 0, hotkey |-> "t", default |-> Str(<<"c">>),
             value |-> Undef, format |-> EmptyStr]]

\* Command keys of the activity: one of one character, and the `sq` of the
\* robin activity, whose second character is the hotkey of QTY there too.
CommandKeys == {<<"R">>, <<"s", "q">>}

\* store.get / getDefinition / getFirstVariable / getNextVariable / ...
GetDefinition(name) == Definitions[name]

\* evalDefault(expr): what is no string is returned as it is; a string is
\* evaluated as JavaScript: a numeral gives its number, the empty string
\* undefined, and a word that names nothing throws and is returned itself.
EvalDefault(expr) ==
  IF expr.k # "str" THEN expr
  ELSE IF expr.s = EmptyStr THEN Undef
  ELSE IF DigitPrefixLen(expr.s) = Len(expr.s) THEN ParseInt(expr.s)
  ELSE expr

\* getDefaultValue: the default of the type, for the types of the model.
TypeDefault(def) ==
  CASE def.type \in {"int", "float"} -> Whole(0)
    [] def.type = "string" -> Str(EmptyStr)
    [] def.type = "enum" ->
         IF Len(def.range) > 0 THEN def.range[1] ELSE Str(EmptyStr)
    [] OTHER -> Null

\* parseLiteralValue(value, def) for a value that is not null or undefined.
ParseLiteralValue(value, def) ==
  CASE def.type = "int" ->
         IF IsNum(value) THEN Num(Floor(value.n)) ELSE ParseInt(ToStr(value))
    [] def.type = "float" ->
         IF IsNum(value) THEN value ELSE ParseFloat(ToStr(value))
    [] def.type \in {"string", "enum"} -> Str(ToStr(value))
    [] OTHER -> value

\* getDefaultValue(def): the persisted `value` first, then `default`, then
\* the default of the type.
GetDefaultValue(def) ==
  IF def.value # Undef THEN ParseLiteralValue(def.value, def)
  ELSE IF def.default # Undef THEN EvalDefault(def.default)
  ELSE TypeDefault(def)

VarIndex(name) == CHOOSE i \in 1..Len(VarNames) : VarNames[i] = name

GetFirstVariable == VarNames[1]

GetNextVariable(name) == VarNames[(VarIndex(name) % Len(VarNames)) + 1]

GetPrevVariable(name) ==
  VarNames[((VarIndex(name) - 2 + Len(VarNames)) % Len(VarNames)) + 1]

HasHotkey(c) == \E i \in 1..Len(VarNames) : Definitions[VarNames[i]].hotkey = c

\* findByHotkey: the first variable in declaration order with that hotkey.
FindByHotkey(c) ==
  VarNames[CHOOSE i \in 1..Len(VarNames) :
             /\ Definitions[VarNames[i]].hotkey = c
             /\ \A j \in 1..(i - 1) : Definitions[VarNames[j]].hotkey # c]

IsCommandKey(s) == s \in CommandKeys


\* ------------------------------------------------------- key classifier
\* One raw chunk is a sequence of bytes; control bytes carry their ASCII
\* names (ETX = 0x03, EOT = 0x04, FF = 0x0c, CAN = 0x18, DEL = 0x7f).
Printable ==
  Digits \cup {"+", "-", ":", "@", "!", "%", "#", "$", "?", "[", "A", "B",
               "C", "D", "O", "R", "Z", "c", "p", "q", "s", "t", "u", "x", "~"}

Key(type, key) == [type |-> type, key |-> key]

\* parseKey(data)
ParseKey(str) ==
  CASE str = <<"ETX">> -> Key("ctrl", "c")
    [] str = <<"EOT">> -> Key("ctrl", "d")
    [] str = <<"FF">> -> Key("ctrl", "l")
    [] str = <<"CR">> \/ str = <<"LF">> -> Key("special", "enter")
    [] str = <<"ESC">> -> Key("special", "escape")
    [] str = <<"DEL">> -> Key("special", "backspace")
    [] str = <<"ESC", "[", "3", "~">> -> Key("special", "delete")
    [] str = <<"TAB">> -> Key("special", "tab")
    [] str = <<"ESC", "[", "Z">> -> Key("special", "shift-tab")
    [] str = <<"ESC", "[", "A">> -> Key("arrow", "up")
    [] str = <<"ESC", "[", "B">> -> Key("arrow", "down")
    [] str = <<"ESC", "[", "D">> -> Key("arrow", "left")
    [] str = <<"ESC", "[", "C">> -> Key("arrow", "right")
    [] OTHER ->
         IF Len(str) = 1 /\ str[1] \in Printable THEN Key("char", str[1])
         ELSE IF Len(str) > 0 /\ str[1] = "ESC" THEN Key("escape-seq", "")
         ELSE Key("unknown", "")

IsKey(key, type, name) == key.type = type /\ key.key = name

\* ---------------------------------------------------------------- state
VARIABLES
  currentChildProcess,   \* signal.js: pid of the registered child, 0 = null
  interruptCount,        \* signal.js
  onParentExitCallback,  \* signal.js: TRUE when a callback is registered
  spawned,               \* number of child processes spawned so far
  alive,                 \* pids of the children that have not closed
  signals,               \* signals sent so far, oldest first
  exited,                \* process.exit has been called
  mode, buffer, inputVar, inputBuffer,        \* ModeStateMachine
  running, inlineBuffer, inputValue, originalValues,
  awaitingCtrlXCombo, exitPressCount, exitTimeout,
  currentAgent,          \* Repl: TRUE once an @agent prefix has set it
  values,                \* VariableStore: values of the current activity
  polling,               \* VoiceListener.polling
  spinner,               \* renderer: the spinner is animating
  termReset,             \* renderer: resetTerminal has run
  lastOutput,            \* renderer: the line printed last
  stray,                 \* terminal: a line printed since the last clear
                         \* was printed while no Round was the current one
  erased,                \* terminal: the count of the last eraseLines
  rounds,                \* Round log: for each Round its line count
                         \* (lines) and the lines the terminal was sent
                         \* while it was the current one (rows)
  roundOpen,             \* Round log: the last Round is the current one
  termRows,              \* terminal: its number of rows
  scrollBottom,          \* terminal: last row of its scroll region
  currentStatusHeight,   \* statusbar.js: currentStatusHeight
  drawn,                 \* the step rendered the status lines
  wroteStatus,           \* the output of the step went to a status row
  microQ,                \* continuations behind settled promises
  ioTasks,               \* continuations behind pending I/O
  dispatching,           \* the chunk being dispatched has further keys
  last,                  \* the event handled last
  calc,                  \* a call of a function checked on its own:
                         \* its inputs and its result
  jog,                   \* JogWheelHandler: fd, polling, the device
                         \* handles that are open, and its pending
                         \* callbacks
  entryValues            \* the values when INPUT was last entered, until
                         \* escape or Enter is pressed

vars ==
  <<currentChildProcess, interruptCount, onParentExitCallback, spawned,
    alive, signals, exited, mode, buffer, inputVar, inputBuffer, running,
    inlineBuffer, inputValue, originalValues, awaitingCtrlXCombo,
    exitPressCount, exitTimeout, currentAgent, values, polling, spinner, termReset,
    lastOutput, stray, erased, rounds, roundOpen, termRows, scrollBottom,
    currentStatusHeight, drawn, wroteStatus, microQ, ioTasks, dispatching,
    last, calc, jog, entryValues>>

\* The variables of the program.
appVars ==
  <<currentChildProcess, interruptCount, onParentExitCallback, spawned,
    alive, signals, exited, mode, buffer, inputVar, inputBuffer, running,
    inlineBuffer, inputValue, originalValues, awaitingCtrlXCombo,
    exitPressCount, exitTimeout, currentAgent, values, polling, spinner, termReset,
    lastOutput, stray, erased, rounds, roundOpen, termRows, scrollBottom,
    currentStatusHeight, drawn, wroteStatus, microQ, ioTasks, dispatching,
    last, jog, entryValues>>

NoVar == "(null)"

\* getTermSize(): process.stdout.rows || 24
DefaultRows == 24

\* The sizes the terminal is given.
TermSizes == {DefaultRows - 1, DefaultRows, DefaultRows + 1}

\* The state as one record, so that a handler is a function of it and the
\* statements of a handler compose in program order.
World ==
  [currentChildProcess |-> currentChildProcess,
   interruptCount |-> interruptCount,
   onParentExitCallback |-> onParentExitCallback,
   spawned |-> spawned, alive |-> alive, signals |-> signals,
   exited |-> exited,
   mode |-> mode, buffer |-> buffer, inputVar |-> inputVar,
   inputBuffer |-> inputBuffer,
   running |-> running, inlineBuffer |-> inlineBuffer,
   inputValue |-> inputValue, originalValues |-> originalValues,
   awaitingCtrlXCombo |-> awaitingCtrlXCombo,
   exitPressCount |-> exitPressCount, exitTimeout |-> exitTimeout,
   currentAgent |-> currentAgent,
   values |-> values, polling |-> polling, spinner |-> spinner,
   termReset |-> termReset, lastOutput |-> lastOutput,
   stray |-> stray, erased |-> erased, rounds |-> rounds, roundOpen |-> roundOpen,
   termRows |-> termRows, scrollBottom |-> scrollBottom,
   currentStatusHeight |-> currentStatusHeight,
   drawn |-> FALSE, wroteStatus |-> FALSE,
   microQ |-> microQ, ioTasks |-> ioTasks]

\* The fields of the controller, of the signal manager and of the mode
\* machine as a handler leaves them.
ApplyRepl(w) ==
  /\ currentChildProcess' = w.currentChildProcess
  /\ interruptCount' = w.interruptCount
  /\ onParentExitCallback' = w.onParentExitCallback
  /\ spawned' = w.spawned
  /\ alive' = w.alive
  /\ signals' = w.signals
  /\ exited' = w.exited
  /\ mode' = w.mode
  /\ buffer' = w.buffer
  /\ inputVar' = w.inputVar
  /\ inputBuffer' = w.inputBuffer
  /\ running' = w.running
  /\ inlineBuffer' = w.inlineBuffer
  /\ inputValue' = w.inputValue
  /\ originalValues' = w.originalValues
  /\ awaitingCtrlXCombo' = w.awaitingCtrlXCombo
  /\ exitPressCount' = w.exitPressCount
  /\ exitTimeout' = w.exitTimeout
  /\ currentAgent' = w.currentAgent
  /\ values' = w.values
  /\ polling' = w.polling
  /\ spinner' = w.spinner
  /\ termReset' = w.termReset
  /\ lastOutput' = w.lastOutput
  /\ stray' = w.stray
  /\ erased' = w.erased
  /\ rounds' = w.rounds
  /\ roundOpen' = w.roundOpen
  /\ termRows' = w.termRows
  /\ scrollBottom' = w.scrollBottom
  /\ currentStatusHeight' = w.currentStatusHeight
  /\ drawn' = w.drawn
  /\ wroteStatus' = w.wroteStatus
  /\ microQ' = w.microQ
  /\ ioTasks' = w.ioTasks

Apply(w) == ApplyRepl(w) /\ calc' = calc

Event(op, type, key, from, ret) ==
  [op |-> op, type |-> type, key |-> key, from |-> from, ret |-> ret]

\* new JogWheelHandler(): fd = null (0) and polling = false; no handle of
\* the device is open, no start() or stop() is pending, no timer of the
\* polling loop is set and no read is in flight.
NewJogWheelHandler ==
  [fd |-> 0, polling |-> FALSE, opened |-> 0, open |-> {}, listing |-> 0,
   opening |-> 0, closing |-> << >>, timers |-> 0, reads |-> << >>,
   stopped |-> FALSE, returned |-> "none"]

\* No call of the type engine on its own.
NoCalc == [op |-> "none"]

\* The program after construction and start().
Started ==
  /\ currentChildProcess = 0
  /\ interruptCount = 0
  /\ onParentExitCallback = FALSE
  /\ spawned = 0
  /\ alive = {}
  /\ signals = << >>
  /\ exited = FALSE
  /\ mode = "NORMAL"
  /\ buffer = EmptyStr
  /\ inputVar = NoVar
  /\ inputBuffer = EmptyStr
  /\ running = TRUE
  /\ inlineBuffer = EmptyStr
  /\ inputValue = EmptyStr
  /\ originalValues = Null
  /\ awaitingCtrlXCombo = FALSE
  /\ exitPressCount = 0
  /\ exitTimeout = FALSE
  /\ currentAgent = FALSE
  /\ values = [n \in {VarNames[i] : i \in 1..Len(VarNames)} |->
                 GetDefaultValue(Definitions[n])]
  /\ polling = FALSE
  /\ spinner = FALSE
  /\ termReset = FALSE
  /\ lastOutput = ""
  /\ stray = FALSE
  /\ erased = 0
  /\ rounds = << >>
  /\ roundOpen = FALSE
  /\ termRows = DefaultRows
  /\ scrollBottom = DefaultRows - 1
  /\ currentStatusHeight = 1
  /\ drawn = TRUE
  /\ wroteStatus = FALSE
  /\ microQ = << >>
  /\ ioTasks = << >>
  /\ dispatching = FALSE
  /\ last = Event("init", "", "", "", FALSE)
  /\ entryValues = Null
  /\ jog = NewJogWheelHandler

Init == Started /\ calc = NoCalc

\* ------------------------------------------------- child interrupt manager
\* registerChildProcess(proc, onExit)
RegisterChildProcess(w, proc, onExit) ==
  [w EXCEPT !.currentChildProcess = proc,
            !.interruptCount = 0,
            !.onParentExitCallback = onExit]

\* unregisterChildProcess() forgetting to reset the counter.
UnregisterKeepsCount(w) ==
  [w EXCEPT !.currentChildProcess = 0, !.onParentExitCallback = FALSE]

\* unregisterChildProcess()
UnregisterChildProcess(w) ==
  [w EXCEPT !.currentChildProcess = 0,
            !.interruptCount = 0,
            !.onParentExitCallback = FALSE]

Signal(sig, pid, via) == [sig |-> sig, pid |-> pid, via |-> via]

\* process.kill(-pgid, sig) with the fallback child.kill(sig); groupGone
\* says that signalling the process group throws.
SendSignal(w, sig, groupGone) ==
  [w EXCEPT !.signals =
     Append(@, Signal(sig, w.currentChildProcess,
                      IF groupGone THEN "child" ELSE "group"))]

\* resetTerminal(): the scroll region is the whole screen again.
ResetTerminal(w) == [w EXCEPT !.termReset = TRUE, !.scrollBottom = w.termRows]

\* _emergencyCleanup(): stopSpinner, resetTerminal, show the cursor.
EmergencyCleanup(w) == ResetTerminal([w EXCEPT !.spinner = FALSE])

\* getStatusHeight(state)
GetStatusHeight(m) == IF m = "INPUT" THEN 2 ELSE 1

\* setScrollRegion(1, bottom) written to the terminal.
SetScrollRegion(w, bottom) == [w EXCEPT !.scrollBottom = bottom]

\* renderStatusOnly(state): the scroll region is set when the height of
\* the status lines differs from the one recorded; the status lines are
\* drawn on the last rows.
RenderStatusOnly(w) ==
  LET newHeight == GetStatusHeight(w.mode)
      w1 == IF newHeight # w.currentStatusHeight
            THEN SetScrollRegion([w EXCEPT !.currentStatusHeight = newHeight],
                                 w.termRows - newHeight)
            ELSE w
  IN [w1 EXCEPT !.drawn = TRUE]

\* render(state) and Repl._render()
Render(w) == RenderStatusOnly(w)

\* initTerminal(state)
InitTerminal(w) ==
  LET h == GetStatusHeight(w.mode)
  IN RenderStatusOnly(
       SetScrollRegion([w EXCEPT !.currentStatusHeight = h], w.termRows - h))

\* The terminal's line feed with the cursor on `row`: at the bottom of the
\* scroll region the region scrolls and the cursor stays, elsewhere the
\* cursor goes one row down unless it is on the last row.
LineFeed(w, row) ==
  IF row = w.scrollBottom THEN row
  ELSE IF row < w.termRows THEN row + 1
  ELSE row

\* handleInterrupt() with the two signals in the wrong order.
HandleInterruptKillFirst(w, groupGone) ==
  IF w.currentChildProcess = 0 THEN [w |-> w, ret |-> FALSE]
  ELSE
    LET w1 == [w EXCEPT !.interruptCount = @ + 1]
    IN IF w1.interruptCount = 1
       THEN [w |-> SendSignal(w1, "SIGKILL", groupGone), ret |-> TRUE]
       ELSE IF w1.interruptCount = 2
       THEN [w |-> SendSignal(w1, "SIGINT", groupGone), ret |-> TRUE]
       ELSE LET w2 == IF w1.onParentExitCallback THEN EmergencyCleanup(w1)
                      ELSE w1
            IN [w |-> [w2 EXCEPT !.exited = TRUE], ret |-> TRUE]

\* handleInterrupt(): the state it leaves and the value it returns.
HandleInterrupt(w, groupGone) ==
  IF w.currentChildProcess = 0 THEN [w |-> w, ret |-> FALSE]
  ELSE
    LET w1 == [w EXCEPT !.interruptCount = @ + 1]
    IN IF w1.interruptCount = 1
       THEN [w |-> SendSignal(w1, "SIGINT", groupGone), ret |-> TRUE]
       ELSE IF w1.interruptCount = 2
       THEN [w |-> SendSignal(w1, "SIGKILL", groupGone), ret |-> TRUE]
       ELSE LET w2 == IF w1.onParentExitCallback THEN EmergencyCleanup(w1)
                      ELSE w1
            IN [w |-> [w2 EXCEPT !.exited = TRUE], ret |-> TRUE]

\* ---------------------------------------------------- mode state machine
ToNormal(w) ==
  [w EXCEPT !.mode = "NORMAL", !.buffer = EmptyStr, !.inputVar = NoVar,
            !.inputBuffer = EmptyStr]

ToCmd(w) == [w EXCEPT !.mode = "CMD", !.buffer = EmptyStr]

ToInput(w, varName) ==
  [w EXCEPT !.mode = "INPUT", !.inputVar = varName, !.inputBuffer = EmptyStr]

ToAgent(w) == [w EXCEPT !.mode = "AGENT", !.buffer = EmptyStr]

\* toLlm(), toShell(), toWord(), toVoice(): as toCmd() and toAgent().
ToLlm(w) == [w EXCEPT !.mode = "LLM", !.buffer = EmptyStr]

ToShell(w) == [w EXCEPT !.mode = "SHELL", !.buffer = EmptyStr]

ToWord(w) == [w EXCEPT !.mode = "WORD", !.buffer = EmptyStr]

ToVoice(w) == [w EXCEPT !.mode = "VOICE", !.buffer = EmptyStr]

\* appendBuffer(char) that takes a variable hotkey as in NORMAL.
AppendBufferOrHotkey(w, char) ==
  IF HasHotkey(char)
  THEN [w EXCEPT !.mode = "INPUT", !.inputVar = FindByHotkey(char)]
  ELSE [w EXCEPT !.buffer = Append(@, char)]

AppendBuffer(w, char) == [w EXCEPT !.buffer = Append(@, char)]

BackspaceBuffer(w) == [w EXCEPT !.buffer = SliceOffLast(@)]

ClearBuffer(w) == [w EXCEPT !.buffer = EmptyStr]

\* --------------------------------------------------------------- store
\* store.set(name, value): ignored for a name without a definition.
StoreSet(w, name, value) ==
  IF name \notin DOMAIN Definitions THEN w
  ELSE [w EXCEPT !.values[name] = value]

\* store.snapshotValues() / store.restoreValues(snapshot)
SnapshotValues(w) == w.values

RestoreValues(w, snapshot) == [w EXCEPT !.values = snapshot]

\* ---------------------------------------------------------- controller
Task(kind, pid) == [kind |-> kind, pid |-> pid]

\* An await that keeps one suspended handler only.
AwaitIoSingleSlot(w, kind, pid) == [w EXCEPT !.ioTasks = <<Task(kind, pid)>>]

\* await on I/O that is pending: the rest of the handler is suspended.
AwaitIo(w, kind, pid) == [w EXCEPT !.ioTasks = Append(@, Task(kind, pid))]

AwaitSettled(w, kind) == [w EXCEPT !.microQ = Append(@, Task(kind, 0))]

\* The output texts of the model; one of them holds a newline.
TwoLines == "out\nout"

\* (line.match(/\n/g) || []).length
NewlineCount(line) == IF line = TwoLines THEN 1 ELSE 0

\* Round log (repl/buffer.js): startRound appends a Round, which is the
\* current one until endRound; addLinesToCurrentRound adds to the count of
\* the current Round.
Round(lines, rows, below) ==
  [lines |-> lines, rows |-> rows, below |-> below]

StartRound(w) ==
  [w EXCEPT !.rounds = Append(@, Round(0, 0, FALSE)), !.roundOpen = TRUE]

EndRound(w) == [w EXCEPT !.roundOpen = FALSE]

AddLinesToCurrentRound(w, n) ==
  IF w.roundOpen THEN [w EXCEPT !.rounds[Len(w.rounds)].lines = @ + n]
  ELSE w

GetRoundCount(w) == Len(w.rounds)

\* printOutput(text, state): '\n' + text is written at the bottom of the
\* scroll region, one row for the newline in front and one for each
\* newline of the text.
PrintOutput(w, text) ==
  LET n == 1 + NewlineCount(text)
      statusHeight == GetStatusHeight(w.mode)
      w0 == IF statusHeight # w.currentStatusHeight
            THEN SetScrollRegion(
                   [w EXCEPT !.currentStatusHeight = statusHeight],
                   w.termRows - statusHeight)
            ELSE w
      first == LineFeed(w0, w0.termRows - w0.currentStatusHeight)
      bottom == IF n = 1 THEN first ELSE LineFeed(w0, first)
      w1 == [w0 EXCEPT !.lastOutput = text,
                       !.wroteStatus = @ \/ bottom > w0.termRows - statusHeight]
      w2 == IF w.roundOpen THEN [w1 EXCEPT !.rounds[Len(w.rounds)].rows = @ + n]
            ELSE IF w.rounds = << >> THEN [w1 EXCEPT !.stray = TRUE]
            ELSE [w1 EXCEPT !.stray = TRUE,
                            !.rounds[Len(w.rounds)].below = TRUE]
  IN RenderStatusOnly(w2)

\* _addOutput(line)
AddOutput(w, line) ==
  AddLinesToCurrentRound(PrintOutput(w, line), 1 + NewlineCount(line))

\* executeCapture up to its await: spawn the child in its own process
\* group and register it with the callback the controller passes.
Spawn(w) ==
  LET pid == w.spawned + 1
  IN RegisterChildProcess(
       [w EXCEPT !.spawned = pid, !.alive = @ \cup {pid}], pid, TRUE)

\* startRound, echo, startSpinner and the call of the executor, up to the
\* await on the child.
StartCommand(w, kind) ==
  LET w1 == AddOutput(StartRound(w), "echo")
      w2 == [w1 EXCEPT !.spinner = TRUE]
      w3 == Spawn(w2)
  IN AwaitIo(w3, kind, w3.spawned)

\* The command paths without stopSpinner() in the finally block.
FinishCommandKeepsSpinner(w) == AddOutput(EndRound(w), "blank")

\* finally { stopSpinner(); endRound(); } this._addOutput('');
FinishCommand(w) ==
  AddOutput(EndRound([w EXCEPT !.spinner = FALSE]), "blank")

\* _executeCurrentCommand(key)
ExecuteCurrentCommand(w, key) == StartCommand(w, "execCurrent")

\* _executeCommandByKey(key) for the key of a command of the activity, up
\* to its await; what follows the await is what follows it in
\* _executeCurrentCommand, and its caller renders likewise.
ExecuteCommandByKey(w) == StartCommand(w, "execCurrent")

HasCommandPrefix(buf) ==
  \E len \in 1..Len(buf) : IsCommandKey(SubSeq(buf, 1, len))

\* _executeBufferCommand(buffer) up to its first await; the caller
\* (_handleNormalMode) goes on after it in either case.
ExecuteBufferCommand(w, buf) ==
  IF HasCommandPrefix(buf) THEN StartCommand(w, "execBuffer")
  ELSE AwaitSettled(AddOutput(w, "Unknown command"), "normalEnter")

\* stop(): up to the await on the jog wheel.
Stop(w) == AwaitIo([w EXCEPT !.running = FALSE], "stop", 0)

\* _clearScreen(): up to the await on clearBuffer().
ClearScreen(w) == AwaitIo(w, "clearScreen", 0)

\* eraseLines(count, state): the last lines of the scroll region are
\* erased.
EraseLines(w, count) == [w EXCEPT !.erased = count]

\* _undoLastRound() without the test of the round count.
UndoLastRoundUnchecked(w) == AwaitIo(w, "undo", 0)

\* _undoLastRound() up to its await: nothing but a flash message when the
\* log is empty.
UndoLastRound(w) ==
  IF GetRoundCount(w) = 0 THEN w ELSE AwaitIo(w, "undo", 0)

\* _undoLastRound() after the await: undoLastRound() has popped the last
\* Round and returned its line count, and that many lines are erased.
UndoDone(w) ==
  IF w.rounds = << >> THEN w
  ELSE LET n == Len(w.rounds)
       IN EraseLines([w EXCEPT !.rounds = SubSeq(@, 1, n - 1),
                               !.roundOpen = FALSE],
                     w.rounds[n].lines)

\* _showHelp(): a blank line, the heading, one line for the command of
\* the activity, a blank line.
ShowHelp(w) ==
  AddOutput(AddOutput(AddOutput(AddOutput(w, "blank"), "Commands:"),
                      "help"), "blank")

\* _updateInputBufferFromVar(varName, def)
UpdateInputBufferFromVar(w, varName) ==
  LET formatted == FormatValue(w.values[varName], GetDefinition(varName))
  IN [w EXCEPT !.inputValue = formatted, !.inlineBuffer = formatted]

\* _enterVarEditMode without its snapshot.
EnterVarEditModeNoSnapshot(w, varName, blank) ==
  IF blank
  THEN [ToInput(w, varName)
          EXCEPT !.inputValue = EmptyStr, !.inlineBuffer = EmptyStr]
  ELSE UpdateInputBufferFromVar(ToInput(w, varName), varName)

\* _enterVarEditMode(varName, {blank})
EnterVarEditMode(w, varName, blank) ==
  LET w1 == IF w.originalValues = Null
            THEN [w EXCEPT !.originalValues = SnapshotValues(w)]
            ELSE w
      w2 == ToInput(w1, varName)
  IN IF blank
     THEN [w2 EXCEPT !.inputValue = EmptyStr, !.inlineBuffer = EmptyStr]
     ELSE UpdateInputBufferFromVar(w2, varName)

\* _selectVar(varName)
SelectVar(w, varName) == UpdateInputBufferFromVar(ToInput(w, varName), varName)

\* _applyInputValue(varName, def) storing whatever the parser returns.
ApplyInputValueUnchecked(w, varName) ==
  IF w.inputValue = EmptyStr THEN StoreSet(w, varName, Undef)
  ELSE StoreSet(w, varName, ParseValue(w.inputValue, GetDefinition(varName)))

\* _applyInputValue(varName, def)
ApplyInputValue(w, varName) ==
  IF w.inputValue = EmptyStr THEN StoreSet(w, varName, Undef)
  ELSE LET parsed == ParseValue(w.inputValue, GetDefinition(varName))
       IN IF parsed # Null THEN StoreSet(w, varName, parsed) ELSE w

\* config.yml of the model sets llm_shell.
LlmShellConfigured == TRUE

WordChars == Digits \cup {"A", "B", "C", "D", "R", "Z", "c", "p", "q", "t",
                          "u", "x", "-"}

\* userInput matches /^@([\w-]+)(?:\s+|$)/ (the model types no blank).
HasAgentPrefix(s) ==
  /\ Len(s) >= 2
  /\ s[1] = "@"
  /\ \A i \in 2..Len(s) : s[i] \in WordChars

\* _handleLlmMode(key): up to the await on getLlmShellCommand().
HandleLlmMode(w, key) ==
  IF IsKey(key, "special", "escape")
  THEN [ToNormal(w) EXCEPT !.inlineBuffer = EmptyStr]
  ELSE IF IsKey(key, "special", "enter")
  THEN IF w.buffer # EmptyStr
       THEN AwaitSettled(w, IF HasAgentPrefix(w.buffer) THEN "llmAgentOnly"
                            ELSE "llmConfig")
       ELSE w
  ELSE IF IsKey(key, "special", "backspace")
  THEN LET w1 == BackspaceBuffer(w) IN [w1 EXCEPT !.inlineBuffer = w1.buffer]
  ELSE IF key.type = "char"
  THEN LET w1 == AppendBuffer(w, key.key) IN [w1 EXCEPT !.inlineBuffer = w1.buffer]
  ELSE w

\* _handleLlmMode from startRound to the await on the write of
\* buffer.log inside executeLlmShell.
LlmStart(w) ==
  LET w1 == AddOutput(StartRound(w), "echo")
      w2 == [ClearBuffer(w1) EXCEPT !.inlineBuffer = EmptyStr]
  IN AwaitIo([w2 EXCEPT !.spinner = TRUE], "llmWrite", 0)

\* _handleLlmMode after getLlmShellCommand() has resolved.
LlmAfterConfig(w, agentOnly) ==
  IF ~LlmShellConfigured
  THEN [ClearBuffer(AddOutput(w, "Error: llm_shell not configured"))
          EXCEPT !.inlineBuffer = EmptyStr]
  ELSE IF agentOnly
  THEN [ClearBuffer(w) EXCEPT !.currentAgent = TRUE,
                               !.inlineBuffer = EmptyStr]
  ELSE IF w.currentAgent THEN LlmStart(w)
  ELSE AwaitSettled(w, "llmAgent")

\* executeLlmShell after the write: executeCapture spawns and registers.
LlmSpawn(w) == LET w1 == Spawn(w) IN AwaitIo(w1, "execCurrent", w1.spawned)

\* executeLlmShell after its writeFile: the child is spawned, or the write
\* has failed, executeLlmShell rejects and the finally block of
\* _handleLlmMode runs before the error leaves the handler.
LlmWriteDone(w, ok) ==
  IF ok THEN LlmSpawn(w) ELSE EndRound([w EXCEPT !.spinner = FALSE])

\* _handleShellMode(key)
HandleShellMode(w, key) ==
  IF IsKey(key, "special", "escape")
  THEN [ToNormal(w) EXCEPT !.inlineBuffer = EmptyStr]
  ELSE IF IsKey(key, "special", "enter")
  THEN IF w.buffer # EmptyStr
       THEN LET w1 == AddOutput(StartRound(w), "echo")
                w2 == [ClearBuffer(w1) EXCEPT !.inlineBuffer = EmptyStr]
                w3 == Spawn([w2 EXCEPT !.spinner = TRUE])
            IN AwaitIo(w3, "execCurrent", w3.spawned)
       ELSE w
  ELSE IF IsKey(key, "special", "backspace")
  THEN LET w1 == BackspaceBuffer(w) IN [w1 EXCEPT !.inlineBuffer = w1.buffer]
  ELSE IF key.type = "char"
  THEN LET w1 == AppendBuffer(w, key.key) IN [w1 EXCEPT !.inlineBuffer = w1.buffer]
  ELSE w

\* The `word` properties of the activity's commands, lower case.
CommandWords == {<<"x">>}

\* String.prototype.toLowerCase on the characters of the model.
LowerChar(c) ==
  CASE c = "A" -> "a" [] c = "B" -> "b" [] c = "C" -> "c" [] c = "D" -> "d"
    [] c = "R" -> "r" [] c = "Z" -> "z" [] OTHER -> c

ToLowerCase(s) == [i \in 1..Len(s) |-> LowerChar(s[i])]

\* _handleWordMode(key)
HandleWordMode(w, key) ==
  IF IsKey(key, "special", "escape")
  THEN [ToNormal(w) EXCEPT !.inlineBuffer = EmptyStr]
  ELSE IF IsKey(key, "special", "enter")
  THEN LET word == ToLowerCase(w.buffer)
           w1 == [ClearBuffer(w) EXCEPT !.inlineBuffer = EmptyStr]
       IN IF word = EmptyStr THEN w
          ELSE IF word \in CommandWords THEN StartCommand(w1, "execCurrent")
          ELSE w1
  ELSE IF IsKey(key, "special", "backspace")
  THEN LET w1 == BackspaceBuffer(w) IN [w1 EXCEPT !.inlineBuffer = w1.buffer]
  ELSE IF key.type = "char"
  THEN LET w1 == AppendBuffer(w, key.key) IN [w1 EXCEPT !.inlineBuffer = w1.buffer]
  ELSE w

\* _enterVoiceMode(): up to the await inside VoiceListener.start().
EnterVoiceMode(w) ==
  LET w1 == [ToVoice(w) EXCEPT !.inlineBuffer = EmptyStr]
  IN IF w1.polling THEN w1 ELSE AwaitIo(w1, "voiceStart", 0)

\* _exitVoiceMode(): VoiceListener.stop(), toNormal.
ExitVoiceMode(w) ==
  [ToNormal([w EXCEPT !.polling = FALSE]) EXCEPT !.inlineBuffer = EmptyStr]

\* _handleVoiceInput without its test of the mode.
HandleVoiceInputAnyMode(w, match) ==
  IF match THEN AwaitSettled(ExitVoiceMode(w), "voiceCommand") ELSE w

\* _handleVoiceInput(normalized, original, timestamp) up to its first
\* await; match: _findCommandByVoice finds a command for the text.
\* _exitVoiceMode() has no await of its own, so it has run when
\* _handleVoiceInput is suspended.
HandleVoiceInput(w, match) ==
  IF w.mode # "VOICE" THEN w
  ELSE IF match THEN AwaitSettled(ExitVoiceMode(w), "voiceCommand")
  ELSE w

\* VoiceListener._emit: every listener is called with the transcription.
RECURSIVE Emit(_, _, _)
Emit(w, listeners, match) ==
  IF listeners = 0 THEN w
  ELSE Emit(HandleVoiceInput(w, match), listeners - 1, match)

\* VoiceListener.onVoice(fn): one more listener.
OnVoice(listeners) == listeners + 1

\* VoiceListener.offVoice(fn) as _exitVoiceMode calls it, with a function
\* bound anew, which is none of the listeners: the filter keeps them all.
OffVoice(listeners) == listeners

\* _handleVoiceMode(key)
HandleVoiceMode(w, key) ==
  IF IsKey(key, "special", "escape") THEN ExitVoiceMode(w) ELSE w

\* _handleAgentMode(key)
HandleAgentMode(w, key) ==
  IF IsKey(key, "special", "escape") THEN ToNormal(w)
  ELSE ToNormal(AddOutput(w, "AGENT mode: Not yet implemented"))

\* A jog handler that turns the wrong way.
HandleJogReversed(w, direction) ==
  IF w.mode # "INPUT" THEN w
  ELSE LET varName == w.inputVar
           def == GetDefinition(varName)
           newVal == IF direction = "CW"
                     THEN DecrementValue(w.values[varName], def)
                     ELSE IncrementValue(w.values[varName], def)
       IN Render(UpdateInputBufferFromVar(StoreSet(w, varName, newVal),
                                          varName))

\* _handleJog(direction)
HandleJog(w, direction) ==
  IF w.mode # "INPUT" THEN w
  ELSE LET varName == w.inputVar
           def == GetDefinition(varName)
           newVal == IF direction = "CW"
                     THEN IncrementValue(w.values[varName], def)
                     ELSE DecrementValue(w.values[varName], def)
       IN Render(UpdateInputBufferFromVar(StoreSet(w, varName, newVal),
                                          varName))

\* _executeCmdCommand(cmd) for the commands a buffer of the model can
\* hold: `q` stops, any other non-empty word is unknown.
ExecuteCmdCommand(w, cmd) ==
  IF cmd = <<"q">> THEN Stop(w)
  ELSE IF cmd # EmptyStr THEN AddOutput(w, "Unknown command")
  ELSE w

\* _handleNormalMode(key) with the disabled `A` trigger of AGENT enabled.
HandleNormalModeAgentKey(w, key) ==
  IF IsKey(key, "special", "escape") THEN [w EXCEPT !.inlineBuffer = EmptyStr]
  ELSE IF IsKey(key, "special", "tab") \/ IsKey(key, "special", "shift-tab")
  THEN w
  ELSE IF IsKey(key, "char", ":") THEN ToCmd(w)
  ELSE IF IsKey(key, "char", "@") THEN ToLlm(w)
  ELSE IF IsKey(key, "char", "!") THEN ToShell(w)
  ELSE IF IsKey(key, "char", "%") THEN ToWord(w)
  ELSE IF IsKey(key, "char", "#") THEN EnterVoiceMode(w)
  ELSE IF IsKey(key, "char", "A") THEN ToAgent(w)
  ELSE IF IsKey(key, "char", "?") THEN ShowHelp(w)
  ELSE IF IsKey(key, "char", "$")
  THEN IF Len(VarNames) > 0
       THEN EnterVarEditMode(w, GetFirstVariable, FALSE) ELSE w
  ELSE IF key.type = "char"
  THEN IF HasHotkey(key.key)
       THEN EnterVarEditMode(w, FindByHotkey(key.key), TRUE)
       ELSE IF IsCommandKey(<<key.key>>)
       THEN ExecuteCurrentCommand(w, <<key.key>>)
       ELSE AppendBuffer([w EXCEPT !.inlineBuffer = Append(@, key.key)],
                         key.key)
  ELSE IF IsKey(key, "special", "enter")
  THEN IF w.buffer # EmptyStr
       THEN ExecuteBufferCommand(w, w.buffer)
       ELSE [ToNormal(w) EXCEPT !.inlineBuffer = EmptyStr]
  ELSE IF IsKey(key, "special", "backspace")
  THEN [BackspaceBuffer(w) EXCEPT !.inlineBuffer = SliceOffLast(@)]
  ELSE w

\* _handleNormalMode(key)
HandleNormalMode(w, key) ==
  IF IsKey(key, "special", "escape") THEN [w EXCEPT !.inlineBuffer = EmptyStr]
  ELSE IF IsKey(key, "special", "tab") \/ IsKey(key, "special", "shift-tab")
  THEN w   \* the one activity is its own successor
  ELSE IF IsKey(key, "char", ":") THEN ToCmd(w)
  ELSE IF IsKey(key, "char", "@") THEN ToLlm(w)
  ELSE IF IsKey(key, "char", "!") THEN ToShell(w)
  ELSE IF IsKey(key, "char", "%") THEN ToWord(w)
  ELSE IF IsKey(key, "char", "#") THEN EnterVoiceMode(w)
  ELSE IF IsKey(key, "char", "?") THEN ShowHelp(w)
  ELSE IF IsKey(key, "char", "$")
  THEN IF Len(VarNames) > 0
       THEN EnterVarEditMode(w, GetFirstVariable, FALSE) ELSE w
  ELSE IF key.type = "char"
  THEN IF HasHotkey(key.key)
       THEN EnterVarEditMode(w, FindByHotkey(key.key), TRUE)
       ELSE IF IsCommandKey(<<key.key>>)
       THEN ExecuteCurrentCommand(w, <<key.key>>)
       ELSE AppendBuffer([w EXCEPT !.inlineBuffer = Append(@, key.key)],
                         key.key)
  ELSE IF IsKey(key, "special", "enter")
  THEN IF w.buffer # EmptyStr
       THEN ExecuteBufferCommand(w, w.buffer)
       ELSE [ToNormal(w) EXCEPT !.inlineBuffer = EmptyStr]
  ELSE IF IsKey(key, "special", "backspace")
  THEN [BackspaceBuffer(w) EXCEPT !.inlineBuffer = SliceOffLast(@)]
  ELSE w

\* _handleCmdMode(key) whose escape clears the buffer and stays in CMD.
HandleCmdModeEscapeStays(w, key) ==
  IF IsKey(key, "special", "escape") THEN ClearBuffer(w)
  ELSE IF IsKey(key, "special", "enter")
  THEN AwaitSettled(ExecuteCmdCommand(w, w.buffer), "cmdEnter")
  ELSE IF IsKey(key, "special", "backspace") THEN BackspaceBuffer(w)
  ELSE IF key.type = "char" THEN AppendBuffer(w, key.key)
  ELSE w

\* _handleCmdMode(key); the history of the model's activity is empty.
HandleCmdMode(w, key) ==
  IF IsKey(key, "special", "escape") THEN ToNormal(w)
  ELSE IF IsKey(key, "special", "enter")
  THEN AwaitSettled(ExecuteCmdCommand(w, w.buffer), "cmdEnter")
  ELSE IF IsKey(key, "special", "backspace") THEN BackspaceBuffer(w)
  ELSE IF key.type = "char" THEN AppendBuffer(w, key.key)
  ELSE w

\* this.originalValues = null; this.mode.toNormal(); both buffers = ''
LeaveInput(w) ==
  [ToNormal([w EXCEPT !.originalValues = Null])
     EXCEPT !.inlineBuffer = EmptyStr, !.inputValue = EmptyStr]

\* _handleInputMode, Enter, with the failure of the write not caught: the
\* handler ends where persistVariableValues throws.
PersistDoneUncaught(w, ok) == IF ok THEN LeaveInput(w) ELSE w

\* _handleInputMode, Enter, after the await on persistVariableValues: the
\* catch prints the failure, then INPUT is left.
PersistDone(w, ok) ==
  LeaveInput(IF ok THEN w ELSE AddOutput(w, "Error saving"))

\* _handleInputMode(key)
HandleInputMode(w, key) ==
  LET varName == w.inputVar
      def == GetDefinition(varName)
  IN
  IF IsKey(key, "special", "escape")
  THEN LeaveInput(IF w.originalValues # Null
                  THEN RestoreValues(w, w.originalValues) ELSE w)
  ELSE IF IsKey(key, "special", "enter") THEN AwaitIo(w, "persist", 0)
  ELSE IF IsKey(key, "arrow", "up")
  THEN UpdateInputBufferFromVar(
         StoreSet(w, varName, IncrementValue(w.values[varName], def)),
         varName)
  ELSE IF IsKey(key, "arrow", "down")
  THEN UpdateInputBufferFromVar(
         StoreSet(w, varName, DecrementValue(w.values[varName], def)),
         varName)
  ELSE IF IsKey(key, "arrow", "left")
  THEN SelectVar(w, GetPrevVariable(varName))
  ELSE IF IsKey(key, "arrow", "right")
  THEN SelectVar(w, GetNextVariable(varName))
  ELSE IF IsKey(key, "special", "backspace")
  THEN IF Len(w.inputValue) > 0
       THEN ApplyInputValue(
              [w EXCEPT !.inputValue = SliceOffLast(@),
                        !.inlineBuffer = SliceOffLast(w.inputValue)],
              varName)
       ELSE w
  ELSE IF key.type = "char"
  THEN ApplyInputValue(
         [w EXCEPT !.inputValue = Append(@, key.key),
                   !.inlineBuffer = Append(w.inputValue, key.key)],
         varName)
  ELSE w

\* The this._render() that ends _handleKey: it runs once the handler of the
\* mode has returned, that is, unless w1 has the handler awaiting still.
RenderUnlessSuspended(w, w1) ==
  IF Len(w1.microQ) + Len(w1.ioTasks) > Len(w.microQ) + Len(w.ioTasks)
  THEN w1
  ELSE Render(w1)

\* The part of _handleKey(key) that follows the exit-counter reset and the
\* Ctrl+X prefix: Ctrl+C, Ctrl+D, Ctrl+L, then the handler of the mode.
HandleGlobalOrMode(w, key, groupGone) ==
  IF IsKey(key, "ctrl", "c")
  THEN LET r == HandleInterrupt(w, groupGone)
       IN IF ~r.ret
          THEN LET w1 == [r.w EXCEPT !.exitPressCount = @ + 1]
               IN IF w1.exitPressCount >= 2 THEN Stop(w1)
                  ELSE [w1 EXCEPT !.exitTimeout = TRUE]
          ELSE r.w
  ELSE IF IsKey(key, "ctrl", "d") THEN Stop(w)
  ELSE IF IsKey(key, "ctrl", "l") THEN ClearScreen(w)
  ELSE RenderUnlessSuspended(w,
         CASE w.mode = "NORMAL" -> HandleNormalMode(w, key)
           [] w.mode = "CMD" -> HandleCmdMode(w, key)
           [] w.mode = "INPUT" -> HandleInputMode(w, key)
           [] w.mode = "AGENT" -> HandleAgentMode(w, key)
           [] w.mode = "LLM" -> HandleLlmMode(w, key)
           [] w.mode = "SHELL" -> HandleShellMode(w, key)
           [] w.mode = "WORD" -> HandleWordMode(w, key)
           [] w.mode = "VOICE" -> HandleVoiceMode(w, key)
           [] OTHER -> w)

\* _handleKey(key) without the reset of the exit counter.
HandleKeyNoReset(w0, key, groupGone) ==
  IF ~w0.running THEN w0
  ELSE IF w0.awaitingCtrlXCombo
  THEN LET w1 == [w0 EXCEPT !.awaitingCtrlXCombo = FALSE]
       IN IF IsKey(key, "char", "u") THEN UndoLastRound(w1) ELSE w1
  ELSE IF IsKey(key, "ctrl", "x")
  THEN [w0 EXCEPT !.awaitingCtrlXCombo = TRUE]
  ELSE HandleGlobalOrMode(w0, key, groupGone)

\* _handleKey(key) up to its first await.
HandleKey(w0, key, groupGone) ==
  IF ~w0.running THEN w0
  ELSE
    LET w == IF IsKey(key, "ctrl", "c") THEN w0
             ELSE [w0 EXCEPT !.exitPressCount = 0]
    IN IF w.awaitingCtrlXCombo
       THEN LET w1 == [w EXCEPT !.awaitingCtrlXCombo = FALSE]
            IN IF IsKey(key, "char", "u") THEN UndoLastRound(w1) ELSE w1
       ELSE IF IsKey(key, "ctrl", "x")
       THEN [w EXCEPT !.awaitingCtrlXCombo = TRUE]
       ELSE HandleGlobalOrMode(w, key, groupGone)

\* What runs when the awaited promise of a continuation settles.
Resume(w, task, ok) ==
  CASE task.kind = "cmdEnter" -> RenderUnlessSuspended(w, ToNormal(w))
    [] task.kind = "normalEnter" ->
         RenderUnlessSuspended(w,
           [ToNormal(w) EXCEPT !.inlineBuffer = EmptyStr])
    [] task.kind = "execCurrent" ->
         RenderUnlessSuspended(w, FinishCommand(w))
    [] task.kind = "execBuffer" ->
         RenderUnlessSuspended(w,
           [ToNormal(FinishCommand(w)) EXCEPT !.inlineBuffer = EmptyStr])
    [] task.kind = "persist" -> RenderUnlessSuspended(w, PersistDone(w, ok))
    [] task.kind = "llmConfig" ->
         RenderUnlessSuspended(w, LlmAfterConfig(w, FALSE))
    [] task.kind = "llmAgentOnly" ->
         RenderUnlessSuspended(w, LlmAfterConfig(w, TRUE))
    [] task.kind = "llmAgent" -> RenderUnlessSuspended(w, LlmStart(w))
    [] task.kind = "llmWrite" -> LlmWriteDone(w, ok)
    [] task.kind = "voiceStart" -> [w EXCEPT !.polling = TRUE]
    [] task.kind = "voiceCommand" ->
         ExecuteCommandByKey(w)
    [] task.kind = "clearScreen" ->
         InitTerminal([w EXCEPT !.lastOutput = "none", !.stray = FALSE,
                                !.rounds = << >>, !.roundOpen = FALSE])
    [] task.kind = "undo" -> UndoDone(w)
    [] task.kind = "stop" -> [ResetTerminal(w) EXCEPT !.exited = TRUE]
    [] OTHER -> w

RemoveAt(seq, i) == SubSeq(seq, 1, i - 1) \o SubSeq(seq, i + 1, Len(seq))

\* --------------------------------------------------------------- actions
\* The lines the terminal was sent while some Round was the current one.
RECURSIVE SumRows(_)
SumRows(rs) == IF rs = << >> THEN 0 ELSE rs[1].rows + SumRows(Tail(rs))

\* Bounds of the exploration.
WithinBounds(w) ==
  /\ Len(w.buffer) <= MaxBuf
  /\ Len(w.inlineBuffer) <= MaxBuf
  /\ Len(w.inputValue) <= MaxBuf
  /\ w.spawned <= MaxProcs
  /\ SumRows(w.rounds) <= MaxLines
  /\ Len(w.microQ) + Len(w.ioTasks) <= MaxTasks

\* Something other than the dispatch loop of a chunk may run.
LoopIdle == ~exited /\ ~dispatching /\ microQ = << >>

\* InputHandler._handleData: one iteration of its loop, which hands one
\* parsed key to the listener; `more` says that the chunk goes on.
HandleData(str, more, groupGone) ==
  /\ ~exited
  /\ dispatching \/ (running /\ microQ = << >>)
  /\ LET key == ParseKey(str)
         w == HandleKey(World, key, groupGone)
     IN /\ WithinBounds(w)
        /\ Apply(w)
        /\ last' = Event("key", key.type, key.key, mode,
                         IsKey(key, "ctrl", "c") /\ running
                           /\ HandleInterrupt(World, groupGone).ret)
        /\ entryValues' =
             IF mode = "NORMAL" /\ w.mode = "INPUT" THEN values
             ELSE IF IsKey(key, "special", "escape")
                     \/ IsKey(key, "special", "enter") THEN Null
             ELSE entryValues
  /\ dispatching' = more
  /\ jog' = jog

\* A continuation behind a settled promise runs.
RunMicrotask(i) ==
  /\ ~exited /\ ~dispatching
  /\ i \in 1..Len(microQ)
  /\ LET w == Resume([World EXCEPT !.microQ = RemoveAt(@, i)], microQ[i], TRUE)
     IN WithinBounds(w) /\ Apply(w)
  /\ last' = Event(microQ[i].kind, "", "", mode, FALSE)
  /\ UNCHANGED <<dispatching, entryValues, jog>>

\* The child process pid closes: the executor unregisters the child and
\* resolves, and the command that awaited it goes on.
ChildClose(pid) ==
  /\ LoopIdle
  /\ pid \in alive
  /\ \E i \in 1..Len(ioTasks) :
       /\ ioTasks[i].pid = pid
       /\ LET w == Resume(UnregisterChildProcess(
                            [World EXCEPT !.alive = @ \ {pid},
                                          !.ioTasks = RemoveAt(@, i)]),
                          ioTasks[i], TRUE)
          IN WithinBounds(w) /\ Apply(w)
  /\ last' = Event("childClose", "", "", mode, FALSE)
  /\ UNCHANGED <<dispatching, entryValues, jog>>

\* The ways a child ends: it exits with code 0 or with another code, it is
\* killed by a signal, or it cannot be spawned.
Outcomes == {"exit0", "exitN", "signal", "spawnError"}

\* The code the 'close' event carries: null when a signal killed the child.
CloseCode(how) ==
  CASE how = "exit0" -> [null |-> FALSE, n |-> 0]
    [] how = "exitN" -> [null |-> FALSE, n |-> 2]
    [] OTHER -> [null |-> TRUE, n |-> 0]

\* code || 0
OrZero(code) == IF code.null \/ code.n = 0 THEN 0 ELSE code.n

\* The code of the result the promise of executeCapture resolves with:
\* { code: code || 0, ... } on 'close' and { code: 1, ... } on 'error'.
ResolvedCode(how) == IF how = "spawnError" THEN 1 ELSE OrZero(CloseCode(how))

\* proc.on('error') that resolves without unregisterChildProcess().
OnErrorKeepsChild(w) == w

\* proc.on('error'): unregisterChildProcess(), then resolve.
OnError(w) == UnregisterChildProcess(w)

\* The child `pid` ends in the way `how`: 'close' for a child that ran,
\* 'error' for one that could not be spawned (its 'close' comes later). The
\* handler unregisters and resolves the promise, and the command that
\* awaits it goes on.
ChildSettle(pid, how) ==
  /\ LoopIdle
  /\ pid \in alive
  /\ \E i \in 1..Len(ioTasks) :
       /\ ioTasks[i].pid = pid
       /\ LET w0 == [World EXCEPT !.ioTasks = RemoveAt(@, i)]
              w1 == IF how = "spawnError" THEN OnError(w0)
                    ELSE UnregisterChildProcess(
                           [w0 EXCEPT !.alive = @ \ {pid}])
              w == Resume(w1, ioTasks[i], TRUE)
          IN WithinBounds(w) /\ Apply(w)
  /\ last' = Event(IF how = "spawnError" THEN "childError" ELSE "childClose",
                   how, NatStr(ResolvedCode(how)), mode, FALSE)
  /\ UNCHANGED <<dispatching, entryValues, jog>>

\* 'close' of a child whose 'error' has resolved the promise already:
\* unregisterChildProcess() runs again and resolve() does nothing.
LateClose(pid) ==
  /\ LoopIdle
  /\ pid \in alive
  /\ \A i \in 1..Len(ioTasks) : ioTasks[i].pid # pid
  /\ Apply(UnregisterChildProcess([World EXCEPT !.alive = @ \ {pid}]))
  /\ last' = Event("lateClose", "", "", mode, FALSE)
  /\ UNCHANGED <<dispatching, entryValues, jog>>

\* The I/O awaited by a continuation that is no child process completes;
\* ok = FALSE is the failure of persistVariableValues or of the write of
\* buffer.log.
IoDone(i, ok) ==
  /\ LoopIdle
  /\ i \in 1..Len(ioTasks)
  /\ ioTasks[i].pid = 0
  /\ ok \/ ioTasks[i].kind \in {"persist", "llmWrite"}
  /\ LET w == Resume([World EXCEPT !.ioTasks = RemoveAt(@, i)], ioTasks[i], ok)
     IN WithinBounds(w) /\ Apply(w)
  /\ last' = Event(ioTasks[i].kind, "", "", mode, ok)
  /\ UNCHANGED <<dispatching, entryValues, jog>>

\* The one-second timer armed by the first Ctrl+C fires.
ExitTimeoutFires ==
  /\ LoopIdle
  /\ exitTimeout
  /\ Apply([World EXCEPT !.exitPressCount = 0, !.exitTimeout = FALSE])
  /\ last' = Event("exitTimeout", "", "", mode, FALSE)
  /\ UNCHANGED <<dispatching, entryValues, jog>>

\* The jog wheel reports one step.
JogEvent(direction) ==
  /\ LoopIdle
  /\ running
  /\ Apply(HandleJog(World, direction))
  /\ last' = Event("jog", "", direction, mode, FALSE)
  /\ UNCHANGED <<dispatching, entryValues, jog>>

\* The child pid writes to its stdout or stderr: onStdout and onStderr
\* print the trimmed data.
ChildOutput(pid, data) ==
  /\ LoopIdle
  /\ pid \in alive
  /\ \E i \in 1..Len(ioTasks) : ioTasks[i].pid = pid
  /\ LET w == AddOutput(World, data) IN WithinBounds(w) /\ Apply(w)
  /\ last' = Event("childOutput", "", data, mode, FALSE)
  /\ UNCHANGED <<dispatching, entryValues, jog>>

\* _handleCtrlXCombo('u') is called.
UndoCombo ==
  /\ LoopIdle
  /\ running
  /\ Apply(UndoLastRound(World))
  /\ Len(ioTasks') <= MaxTasks
  /\ last' = Event("undoCombo", "", "u", mode, FALSE)
  /\ UNCHANGED <<dispatching, entryValues, jog>>

\* The user resizes the terminal to r rows. process.stdout.rows follows;
\* no handler of the program runs. The terminal keeps its scroll region,
\* cut to the screen, or resets it to the whole screen.
Resize(r, keep) ==
  /\ LoopIdle
  /\ running
  /\ r # termRows
  /\ Apply([World EXCEPT !.termRows = r,
                         !.scrollBottom = IF keep /\ @ < r THEN @ ELSE r])
  /\ last' = Event("resize", "", "", mode, keep)
  /\ UNCHANGED <<dispatching, entryValues, jog>>

\* The timer of the spinner ticks: startSpinner(() => this._render())
SpinnerTick ==
  /\ LoopIdle
  /\ spinner
  /\ ~drawn \/ last.op # "tick"
  /\ Apply(Render(World))
  /\ last' = Event("tick", "", "", mode, FALSE)
  /\ UNCHANGED <<dispatching, entryValues, jog>>

Resizes == \E r \in TermSizes, keep \in BOOLEAN : Resize(r, keep)

\* A key arrives, drawn from the raw chunks in K; chunks hold several keys
\* when multi is TRUE.
KeyData(K, multi) ==
  \E str \in K, more \in {FALSE, multi}, groupGone \in BOOLEAN :
    HandleData(str, more, groupGone)

Microtasks == \E i \in 1..MaxTasks : RunMicrotask(i)

IoCompletes == \E i \in 1..MaxTasks, ok \in BOOLEAN : IoDone(i, ok)

ChildCloses == \E pid \in 1..MaxProcs : ChildClose(pid)

ChildSettles == \E pid \in 1..MaxProcs, how \in Outcomes : ChildSettle(pid, how)

LateCloses == \E pid \in 1..MaxProcs : LateClose(pid)

JogTurns == \E direction \in {"CW", "CCW"} : JogEvent(direction)

ChildOutputs ==
  \E pid \in 1..MaxProcs, data \in {"out", TwoLines} : ChildOutput(pid, data)

\* Typing: in NORMAL the user presses a hotkey, `$` or escape; in INPUT
\* digits, signs, a letter, backspace, the arrows or escape, and the jog
\* wheel turns.
TypeKeys ==
  IF mode = "INPUT"
  THEN {<<"1">>, <<"2">>, <<"+">>, <<"-">>, <<"c">>, <<"DEL">>, <<"ESC">>,
        <<"ESC", "[", "A">>, <<"ESC", "[", "B">>, <<"ESC", "[", "C">>,
        <<"ESC", "[", "D">>}
  ELSE {<<"q">>, <<"t">>, <<"$">>, <<"ESC">>}

NextType == KeyData(TypeKeys, FALSE) \/ JogTurns

SpecType == Init /\ [][NextType]_vars

\* Editing sessions with Enter: entering INPUT, editing, committing with the
\* write completing or failing at any later moment, discarding.
EditKeys ==
  IF mode = "INPUT"
  THEN {<<"1">>, <<"DEL">>, <<"CR">>, <<"ESC">>, <<"ESC", "[", "A">>,
        <<"ESC", "[", "B">>, <<"ESC", "[", "C">>, <<"ESC", "[", "D">>}
  ELSE {<<"q">>, <<"t">>, <<"$">>, <<"ESC">>}

NextEdit == KeyData(EditKeys, FALSE) \/ IoCompletes

SpecEdit == Init /\ [][NextEdit]_vars

\* Interrupts: Ctrl+C, the command key R and one other key, with the child
\* closing, the exit timer firing and stop() completing.
InterruptKeys == {<<"ETX">>, <<"R">>, <<"x">>}

NextInterrupt ==
  \/ KeyData(InterruptKeys, FALSE)
  \/ ChildCloses
  \/ IoCompletes
  \/ ExitTimeoutFires

SpecInterrupt == Init /\ [][NextInterrupt]_vars

\* Spinner: a command key, the SHELL trigger and Ctrl+C in NORMAL; in
\* SHELL a one-character line and Enter, or escape, and Ctrl+C.
SpinnerKeys ==
  IF mode = "NORMAL" THEN {<<"R">>, <<"!">>, <<"ETX">>}
  ELSE IF buffer = EmptyStr THEN {<<"x">>, <<"ESC">>, <<"ETX">>}
  ELSE {<<"CR">>, <<"ETX">>}

NextSpinner ==
  \/ KeyData(SpinnerKeys, FALSE)
  \/ ChildCloses
  \/ IoCompletes

SpecSpinner == Init /\ [][NextSpinner]_vars

\* Child failure: a command key and Ctrl+C, and every child ends in one of
\* the ways of Outcomes.
ChildKeys == {<<"R">>, <<"ETX">>}

NextChild ==
  \/ KeyData(ChildKeys, FALSE)
  \/ ChildSettles
  \/ LateCloses
  \/ IoCompletes

SpecChild == Init /\ [][NextChild]_vars

\* Text modes: in NORMAL the triggers of CMD, LLM, SHELL and WORD; in those
\* modes a hotkey, a command key, every trigger character of NORMAL, and
\* escape; in SHELL also Enter, so that keys are typed while a child runs.
TextKeys ==
  IF mode = "NORMAL" THEN {<<":">>, <<"@">>, <<"!">>, <<"%">>}
  ELSE {<<"q">>, <<"t">>, <<"R">>, <<":">>, <<"@">>, <<"!">>, <<"%">>,
        <<"#">>, <<"$">>, <<"?">>, <<"ESC">>}
         \cup (IF mode = "SHELL" THEN {<<"CR">>} ELSE {})

NextText ==
  \/ KeyData(TextKeys, FALSE)
  \/ ChildCloses

SpecText == Init /\ [][NextText]_vars

\* Command buffer: in NORMAL the characters of the command key `sq`, the
\* command key R, Enter and escape; in INPUT a digit, Enter and escape.
BufferKeys ==
  IF mode = "NORMAL" THEN {<<"s">>, <<"q">>, <<"R">>, <<"CR">>, <<"ESC">>}
  ELSE {<<"1">>, <<"CR">>, <<"ESC">>}

NextBuffer ==
  \/ KeyData(BufferKeys, FALSE)
  \/ Microtasks
  \/ ChildCloses
  \/ IoCompletes

SpecBuffer == Init /\ [][NextBuffer]_vars

\* Rendering: in NORMAL a hotkey, a command key and help; in INPUT a
\* digit, Enter and escape; and the terminal is resized.
RenderKeys ==
  IF mode = "NORMAL" THEN {<<"q">>, <<"R">>, <<"?">>}
  ELSE {<<"1">>, <<"CR">>, <<"ESC">>}

NextRender ==
  \/ KeyData(RenderKeys, FALSE)
  \/ Resizes
  \/ SpinnerTick
  \/ ChildOutputs
  \/ ChildCloses
  \/ IoCompletes

SpecRender == Init /\ [][NextRender]_vars

\* The type engine on its own. Definitions of type int and float with no
\* range, a range of integers and a range of halves, of type date with no
\* range and a range of days, each with no step, a step of one and a step
\* of a half (int, float) or of two (date); values in and out of the range.
CalcDefs ==
  [type : {"int", "float"},
   range : {<< >>, <<Unit, 3 * Unit>>, <<1, 5>>},
   step : {0, 1, Unit}]
  \cup
  [type : {"date"}, range : {<< >>, <<10, 12>>}, step : {0, Unit, 2 * Unit}]

CalcValues(def) ==
  IF def.type = "date" THEN {Date(d) : d \in MaxValue..(MaxValue + 6)}
  ELSE {Num(n) : n \in -1..MaxValue}

\* Definitions of type enum: ranges of one, two and three values.
EnumDefs ==
  [type : {"enum"},
   range : {<<Str(<<"c">>)>>,
            <<Str(<<"c">>), Str(<<"p">>)>>,
            <<Str(<<"c">>), Str(<<"p">>), Str(<<"x">>)>>},
   step : {0, Unit}]

\* The values of the range and one value that is not in it.
EnumValues(def) == {def.range[i] : i \in 1..Len(def.range)} \cup {Str(<<"z">>)}

\* Bound of the exploration: the results stay near the values given.
CalcWithinBounds(c) ==
  c.result.k \in {"num", "date"} => c.result.n \in (0 - MaxValue)..(2 * MaxValue)

Calc(op, def, arg, result) ==
  [op |-> op, def |-> def, arg |-> arg, result |-> result]

InitValues ==
  /\ Started
  /\ \/ \E def \in CalcDefs : \E v \in CalcValues(def) :
            calc = Calc("init", def, v, v)
     \/ \E def \in EnumDefs : \E v \in EnumValues(def) :
            calc = Calc("init", def, v, v)

\* incrementValue(value, def) on the result of the call before.
Increment ==
  /\ calc.op # "none"
  /\ calc' = Calc("inc", calc.def, calc.result,
                  IncrementValue(calc.result, calc.def))
  /\ CalcWithinBounds(calc')
  /\ UNCHANGED appVars

\* decrementValue(value, def) on the result of the call before.
Decrement ==
  /\ calc.op # "none"
  /\ calc' = Calc("dec", calc.def, calc.result,
                  DecrementValue(calc.result, calc.def))
  /\ CalcWithinBounds(calc')
  /\ UNCHANGED appVars

NextValues == Increment \/ Decrement

SpecValues == InitValues /\ [][NextValues]_vars

\* The store with one variable, VAR: definitions with and without a
\* declared default and with and without a persisted value, as the activity
\* file gives them at load time.
StoreDefs ==
  [type : {"int", "float"}, range : {<< >>},
   default : {Undef, Whole(2), Str(<<"3">>)},
   value : {Undef, Whole(2), Whole(3), Num(5)}]
  \cup
  [type : {"enum"}, range : {<<Str(<<"c">>), Str(<<"p">>)>>},
   default : {Undef, Str(<<"p">>)},
   value : {Undef, Str(<<"c">>), Str(<<"p">>)}]

\* The values store.set is given.
StoreValues(def) ==
  IF def.type = "enum" THEN {def.range[i] : i \in 1..Len(def.range)}
  ELSE {Num(n) : n \in {0, 3, MaxValue}}

StoreNames == {"VAR", "NOPE", ""}

Store(op, name, def, value, ret) ==
  [op |-> op, name |-> name, def |-> def, value |-> value, ret |-> ret]

\* registerActivity: every variable starts with getDefaultValue(def).
InitStore ==
  /\ Started
  /\ \E def \in StoreDefs :
       calc = Store("init", "", def, GetDefaultValue(def), FALSE)

\* store.set(name, value)
Set(name, value) ==
  /\ calc.op # "none"
  /\ calc' = IF name = "VAR" THEN Store("set", name, calc.def, value, TRUE)
             ELSE Store("set", name, calc.def, calc.value, FALSE)
  /\ UNCHANGED appVars

\* store.reset(name)
Reset(store, name) ==
  IF name # "VAR" THEN [store EXCEPT !.ret = FALSE]
  ELSE [store EXCEPT !.value = GetDefaultValue(store.def), !.ret = TRUE]

\* _executeCmdCommand: case 'unset' with args[0] = name.
Unset(name) ==
  /\ calc.op # "none"
  /\ calc' = IF name = "" THEN [calc EXCEPT !.op = "unset", !.name = name,
                                            !.ret = FALSE]
             ELSE Reset([calc EXCEPT !.op = "unset", !.name = name], name)
  /\ UNCHANGED appVars

NextStore ==
  \/ \E name \in StoreNames : \E v \in StoreValues(calc.def) : Set(name, v)
  \/ \E name \in StoreNames : Unset(name)

SpecStore == InitStore /\ [][NextStore]_vars

\* formatValue followed by parseValue. Definitions of type int and float
\* with no format and with the formats %d, %03d, %.0f and %.2f, with no
\* range and with a range, and every valid value of each: an integer for
\* an int, a number of halves for a float, both inside the range if any.
Formats ==
  {EmptyStr, <<"%", "d">>, <<"%", "0", "3", "d">>, <<"%", ".", "0", "f">>,
   <<"%", ".", "2", "f">>}

FormatDefs ==
  [type : {"int", "float"}, range : {<< >>, <<0, MaxValue>>}, step : {Unit},
   format : Formats]

FormatValues(def) ==
  {v \in {Num(n) : n \in (0 - MaxValue)..(4 * MaxValue)} :
     /\ def.type = "int" => v.n % Unit = 0
     /\ Len(def.range) = 2 => def.range[1] <= v.n /\ v.n <= def.range[2]}

EnumFormatDefs ==
  [type : {"enum"},
   range : {<<Str(<<"c">>)>>, <<Str(<<"c">>), Str(<<"1">>)>>},
   step : {0}, format : {EmptyStr, <<"%", "d">>}]

InitFormat ==
  /\ Started
  /\ \/ \E def \in FormatDefs : \E v \in FormatValues(def) :
            calc = Calc("init", def, v, v)
     \/ \E def \in EnumFormatDefs : \E i \in 1..Len(def.range) :
            calc = Calc("init", def, def.range[i], def.range[i])

\* formatValue(value, def)
Format ==
  /\ calc.op = "init"
  /\ calc' = Calc("format", calc.def, calc.arg,
                  Str(FormatValue(calc.arg, calc.def)))
  /\ UNCHANGED appVars

\* parseValue(input, def) on the string formatValue returned.
Parse ==
  /\ calc.op = "format"
  /\ calc' = Calc("parse", calc.def, calc.arg,
                  ParseValue(calc.result.s, calc.def))
  /\ UNCHANGED appVars

NextFormat == Format \/ Parse

SpecFormat == InitFormat /\ [][NextFormat]_vars

\* formatLiteralValue(value, def)
FormatLiteralValue(value, def) ==
  CASE def.type = "int" ->
         IF value.k \in {"num", "nan"} THEN value ELSE ParseInt(ToStr(value))
    [] def.type = "float" ->
         IF value.k \in {"num", "nan"} THEN value
         ELSE ParseFloat(ToStr(value))
    [] def.type \in {"string", "enum"} -> Str(ToStr(value))
    [] OTHER -> value

\* persistVariableValues, the loop over activity._values: the `value` field
\* each variable is given in the parsed file (Undef: the field is deleted).
PersistedValues(activityValues) ==
  [n \in DOMAIN activityValues |->
     IF activityValues[n] \in {Undef, Null, Str(EmptyStr)} THEN Undef
     ELSE FormatLiteralValue(activityValues[n], GetDefinition(n))]

\* persistVariableValues in its two awaits. Enter has set activity._values
\* to a copy of the store's values and store.set writes every later value
\* to both, so without restoreValues and store.reset activity._values is
\* the store's values when readFile resolves; the values are then put in
\* the parsed file and writeFile is awaited.
PersistRead(i) ==
  /\ LoopIdle
  /\ i \in 1..Len(ioTasks)
  /\ ioTasks[i].kind = "persist"
  /\ Apply([World EXCEPT !.ioTasks[i] =
              [kind |-> "persistWrite", pid |-> 0,
               data |-> PersistedValues(values)]])
  /\ last' = Event("persistRead", "", "", mode, TRUE)
  /\ UNCHANGED <<dispatching, entryValues, jog>>

\* readFile fails: persistVariableValues throws before it looks at the
\* values.
PersistReadFails(i) ==
  /\ i \in 1..Len(ioTasks)
  /\ ioTasks[i].kind = "persist"
  /\ IoDone(i, FALSE)

\* writeFile resolves or fails: the continuation of Enter runs.
PersistWritten(i, ok) ==
  /\ LoopIdle
  /\ i \in 1..Len(ioTasks)
  /\ ioTasks[i].kind = "persistWrite"
  /\ LET w == Resume([World EXCEPT !.ioTasks = RemoveAt(@, i)],
                     Task("persist", 0), ok)
     IN WithinBounds(w) /\ Apply(w)
  /\ last' = Event("persistWrite", "", "", mode, ok)
  /\ UNCHANGED <<dispatching, entryValues, jog>>

PersistReads == \E i \in 1..MaxTasks : PersistRead(i)

PersistReadsFail == \E i \in 1..MaxTasks : PersistReadFails(i)

PersistWrites == \E i \in 1..MaxTasks, ok \in BOOLEAN : PersistWritten(i, ok)

\* Committing: INPUT is entered by a hotkey or `$`; in INPUT a digit, the
\* arrows that change the value and Enter, with the wheel turning and the
\* read and the write of the activity file completing at any moment.
\* INPUT is left by the continuation of Enter only.
PersistKeys ==
  IF mode = "INPUT"
  THEN {<<"1">>, <<"CR">>, <<"ESC", "[", "A">>, <<"ESC", "[", "B">>}
  ELSE {<<"q">>, <<"$">>}

NextPersist ==
  \/ KeyData(PersistKeys, FALSE)
  \/ JogTurns
  \/ PersistReads
  \/ PersistReadsFail
  \/ PersistWrites

SpecPersist == Init /\ [][NextPersist]_vars

\* The voice listener with its list of listeners, which the controller
\* adds to at every entry into VOICE: calc holds their number.
Listening(listeners) == [op |-> "voice", listeners |-> listeners]

InitListen == Started /\ calc = Listening(0)

\* A key is handled; where it enters VOICE _enterVoiceMode has called
\* onVoice, where it leaves VOICE _exitVoiceMode has called offVoice.
ListenData(str) ==
  /\ ~exited /\ running /\ microQ = << >>
  /\ LET key == ParseKey(str)
         w == HandleKey(World, key, FALSE)
     IN /\ WithinBounds(w)
        /\ ApplyRepl(w)
        /\ last' = Event("key", key.type, key.key, mode, FALSE)
        /\ calc' = Listening(
                     IF mode # "VOICE" /\ w.mode = "VOICE"
                     THEN OnVoice(calc.listeners)
                     ELSE IF mode = "VOICE" /\ w.mode # "VOICE"
                     THEN OffVoice(calc.listeners)
                     ELSE calc.listeners)
  /\ calc'.listeners <= MaxListeners
  /\ UNCHANGED <<dispatching, entryValues, jog>>

\* The interval of VoiceListener.start() fires while polling is set and
\* awaits getVoiceTranscriptions().
Poll ==
  /\ LoopIdle
  /\ polling
  /\ \A i \in 1..Len(ioTasks) : ioTasks[i].kind # "voicePoll"
  /\ LET w == AwaitIo(World, "voicePoll", 0)
     IN WithinBounds(w) /\ Apply(w)
  /\ last' = Event("poll", "", "", mode, FALSE)
  /\ UNCHANGED <<dispatching, entryValues, jog>>

\* getVoiceTranscriptions() returns one transcription, which is emitted to
\* the listeners; match: its text matches the voice pattern of a command.
Transcription(i, match) ==
  /\ LoopIdle
  /\ i \in 1..Len(ioTasks)
  /\ ioTasks[i].kind = "voicePoll"
  /\ LET w == Emit([World EXCEPT !.ioTasks = RemoveAt(@, i)],
                   calc.listeners, match)
     IN /\ WithinBounds(w)
        /\ ApplyRepl(w)
        /\ calc' = Listening(IF w.mode # mode THEN OffVoice(calc.listeners)
                             ELSE calc.listeners)
  /\ last' = Event("voice", "", IF match THEN "match" ELSE "", mode, match)
  /\ UNCHANGED <<dispatching, entryValues, jog>>

Transcriptions ==
  \E i \in 1..MaxTasks, match \in BOOLEAN : Transcription(i, match)

\* VOICE entered and left any number of times, by escape before and after
\* the listener has started and by a transcription that runs a command,
\* with polls that return nothing (IoCompletes) or a transcription at any
\* moment, VOICE being left or entered again meanwhile.
ListenKeys ==
  IF mode = "NORMAL" THEN {<<"#">>}
  ELSE IF mode = "VOICE" THEN {<<"x">>, <<"ESC">>}
  ELSE {<<"ESC">>}

NextListen ==
  \/ \E str \in ListenKeys : ListenData(str)
  \/ Poll
  \/ Transcriptions
  \/ IoCompletes
  \/ Microtasks
  \/ ChildCloses

SpecListen == InitListen /\ [][NextListen]_vars

\* The jog wheel in every mode: in NORMAL the hotkeys, the triggers of CMD,
\* SHELL, WORD and VOICE and an ordinary character; in INPUT a digit,
\* backspace, the arrows and escape; elsewhere a character and escape; the
\* wheel turns at any moment, and the start of the voice listener completes.
JogKeys ==
  IF mode = "NORMAL"
  THEN {<<"q">>, <<"t">>, <<":">>, <<"!">>, <<"%">>, <<"#">>, <<"x">>}
  ELSE IF mode = "INPUT"
  THEN {<<"1">>, <<"DEL">>, <<"ESC">>, <<"ESC", "[", "A">>,
        <<"ESC", "[", "B">>, <<"ESC", "[", "C">>}
  ELSE {<<"x">>, <<"ESC">>}

NextJog == KeyData(JogKeys, FALSE) \/ JogTurns \/ IoCompletes

SpecJog == Init /\ [][NextJog]_vars

\* VOICE: entered with `#`; in VOICE a character, a hotkey, a command key,
\* Enter, backspace, Tab, an arrow, the global keys and escape; the start
\* of the voice listener completes at any later moment.
VoiceKeys ==
  IF mode = "NORMAL" THEN {<<"#">>, <<"x">>}
  ELSE IF mode = "VOICE"
  THEN {<<"x">>, <<"q">>, <<"R">>, <<"CR">>, <<"DEL">>, <<"TAB">>,
        <<"ESC", "[", "A">>, <<"ETX">>, <<"EOT">>, <<"FF">>, <<"ESC">>}
  ELSE {<<"ESC">>}

NextVoice == KeyData(VoiceKeys, FALSE) \/ IoCompletes \/ ExitTimeoutFires

SpecVoice == Init /\ [][NextVoice]_vars

\* The jog wheel handler on its own (the revision with non-blocking reads).
\* start() and stop() are called at any moment, also while earlier calls
\* are pending; the device is present or not, and has data or not.
JogStep(op, j) ==
  /\ ~exited
  /\ jog' = j
  /\ j.opened + j.opening + j.listing <= MaxOpens
  /\ Len(j.closing) <= MaxOpens
  /\ Apply(World)
  /\ last' = Event(op, "", "", "", FALSE)
  /\ UNCHANGED <<dispatching, entryValues>>

\* start(): returns true at once when polling, else awaits the listing of
\* /dev/snd.
JogStart ==
  IF jog.polling
  THEN JogStep("jogStart", [jog EXCEPT !.stopped = FALSE, !.returned = "true"])
  ELSE JogStep("jogStart", [jog EXCEPT !.stopped = FALSE, !.listing = @ + 1])

\* listMidiDevices() has resolved: with no device start() returns false,
\* else it awaits the opening of the device.
JogListed(present) ==
  /\ jog.listing > 0
  /\ JogStep("jogListed",
             IF present
             THEN [jog EXCEPT !.listing = @ - 1, !.opening = @ + 1]
             ELSE [jog EXCEPT !.listing = @ - 1, !.returned = "false"])

\* openAsync has settled: on success fd is the new handle, polling is set
\* and the first pollFn is scheduled; on failure start() returns false.
JogOpened(ok) ==
  /\ jog.opening > 0
  /\ JogStep("jogOpened",
             IF ok
             THEN [jog EXCEPT !.opening = @ - 1, !.opened = @ + 1,
                              !.open = @ \cup {jog.opened + 1},
                              !.fd = jog.opened + 1, !.polling = TRUE,
                              !.timers = @ + 1, !.returned = "true"]
             ELSE [jog EXCEPT !.opening = @ - 1, !.returned = "false"])

\* stop(): clears polling and, with a handle, awaits its closing.
JogStop ==
  /\ running \/ jog.polling \/ jog.fd # 0
  /\ JogStep("jogStop",
             IF jog.fd # 0
             THEN [jog EXCEPT !.polling = FALSE, !.stopped = TRUE,
                              !.closing = Append(@, jog.fd)]
             ELSE [jog EXCEPT !.polling = FALSE, !.stopped = TRUE])

\* closeAsync has settled (an error is ignored): fd = null.
JogClosed ==
  /\ jog.closing # << >>
  /\ JogStep("jogClosed",
             [jog EXCEPT !.closing = Tail(@), !.open = @ \ {Head(jog.closing)},
                         !.fd = 0])

\* A timer fires pollFn: it returns when polling is off or fd is null, else
\* it issues a read on fd.
PollFn ==
  /\ jog.timers > 0
  /\ IF ~jog.polling \/ jog.fd = 0
     THEN JogStep("jogPoll", [jog EXCEPT !.timers = @ - 1])
     ELSE JogStep("jogRead", [jog EXCEPT !.timers = @ - 1,
                                        !.reads = Append(@, jog.fd)])

\* The callback of the read numbered i: three bytes of a turn of the wheel
\* are emitted to the listeners; then, when polling, the next pollFn is
\* scheduled. A read on a closed handle ends with an error.
ReadDone(i, data) ==
  /\ i \in 1..Len(jog.reads)
  /\ data => jog.reads[i] \in jog.open
  /\ JogStep(IF data THEN "jogEmit" ELSE "jogNoData",
             [jog EXCEPT !.reads = RemoveAt(@, i),
                         !.timers = IF jog.polling THEN @ + 1 ELSE @])

NextJogWheel ==
  \/ JogStart
  \/ \E present \in BOOLEAN : JogListed(present)
  \/ \E ok \in BOOLEAN : JogOpened(ok)
  \/ JogStop
  \/ JogClosed
  \/ PollFn
  \/ \E i \in 1..MaxOpens, data \in BOOLEAN : ReadDone(i, data)

SpecJogWheel == Init /\ [][NextJogWheel]_vars

\* The input decoder on its own. A byte stream is what a sequence of
\* keypresses sends: a character, `[`, Escape, the four arrows, Delete,
\* Page Up (a CSI sequence parseKey does not know) and F3 (ESC O R, which
\* is no CSI sequence), cut into chunks at any places.
KeyPresses ==
  {<<"q">>, <<"[">>, <<"ESC">>, <<"ESC", "[", "A">>, <<"ESC", "[", "B">>,
   <<"ESC", "[", "C">>, <<"ESC", "[", "D">>, <<"ESC", "[", "3", "~">>,
   <<"ESC", "[", "5", "~">>, <<"ESC", "O", "R">>}

RECURSIVE Flatten(_)
Flatten(seqs) == IF seqs = << >> THEN << >> ELSE Head(seqs) \o Flatten(Tail(seqs))

\* The chunks of a stream cut after the bytes numbered in cuts.
RECURSIVE ChunksFrom(_, _, _)
ChunksFrom(bytes, cuts, from) ==
  LET ends == {c \in cuts : c >= from}
  IN IF ends = {} THEN <<SubSeq(bytes, from, Len(bytes))>>
     ELSE LET c == CHOOSE x \in ends : \A y \in ends : x <= y
          IN <<SubSeq(bytes, from, c)>> \o ChunksFrom(bytes, cuts, c + 1)

Decoding(op, keys, cuts, str, rest, i, events) ==
  [op |-> op, keys |-> keys, cuts |-> cuts, str |-> str, rest |-> rest,
   i |-> i, events |-> events]

InitDecode ==
  /\ Started
  /\ \E n \in 1..MaxKeys : \E keys \in [1..n -> KeyPresses] :
       \E cuts \in SUBSET (1..(Len(Flatten(keys)) - 1)) :
         /\ Cardinality(cuts) <= MaxCuts
         /\ LET chunks == ChunksFrom(Flatten(keys), cuts, 1)
            IN calc = Decoding("data", keys, cuts, Head(chunks), Tail(chunks),
                               0, << >>)

\* The characters '0' to '?', which the scan of a CSI sequence skips.
ParamChars == Digits \cup {":", ";", "<", "=", ">", "?"}

\* while (j < str.length && str[j] >= '0' && str[j] <= '?') j++
RECURSIVE ScanParams(_, _)
ScanParams(str, j) ==
  IF j < Len(str) /\ str[j + 1] \in ParamChars THEN ScanParams(str, j + 1)
  ELSE j

\* A scan that takes the escape character alone.
EndOfKeyEscapeOnly(str, i) == i + 1

\* The index after the key that begins at index i of str (0-based).
EndOfKey(str, i) ==
  IF str[i + 1] = "ESC" /\ i + 1 < Len(str) /\ str[i + 2] = "["
  THEN LET j == ScanParams(str, i + 2)
       IN IF j < Len(str) THEN j + 1 ELSE j
  ELSE i + 1

\* _handleData: one turn of its loop, which slices one key off the chunk
\* and hands parseKey's result to the listeners.
DecodeKey ==
  /\ calc.op \in {"data", "key"}
  /\ calc.i < Len(calc.str)
  /\ LET j == EndOfKey(calc.str, calc.i)
         chunk == SubSeq(calc.str, calc.i + 1, j)
     IN calc' = [calc EXCEPT !.op = "key", !.i = j,
                   !.events = Append(@, [key |-> ParseKey(chunk),
                                         raw |-> chunk])]
  /\ UNCHANGED appVars

\* The loop has ended and stdin emits the next chunk.
DataArrives ==
  /\ calc.op \in {"data", "key"}
  /\ calc.i >= Len(calc.str)
  /\ calc.rest # << >>
  /\ calc' = [calc EXCEPT !.op = "data", !.str = Head(calc.rest),
                          !.rest = Tail(calc.rest), !.i = 0]
  /\ UNCHANGED appVars

NextDecode == DecodeKey \/ DataArrives

SpecDecode == InitDecode /\ [][NextDecode]_vars

\* Modes: in NORMAL the triggers of CMD, LLM, SHELL and WORD, a hotkey, one
\* ordinary character, Enter and escape; in the other modes the character,
\* Enter and escape (and `@` in LLM, which starts an agent prefix). VOICE
\* has specifications of its own (SpecVoice, SpecListen, SpecJog).
ModeKeys ==
  IF mode = "NORMAL"
  THEN {<<":">>, <<"@">>, <<"!">>, <<"%">>, <<"q">>, <<"x">>,
        <<"CR">>, <<"ESC">>}
  ELSE IF mode = "LLM" THEN {<<"@">>, <<"x">>, <<"CR">>, <<"ESC">>}
  ELSE {<<"x">>, <<"CR">>, <<"ESC">>}

NextModes ==
  \/ KeyData(ModeKeys, FALSE)
  \/ Microtasks
  \/ IoCompletes
  \/ ChildCloses

SpecModes == Init /\ [][NextModes]_vars

\* NORMAL: every key the NORMAL handler tells apart (the triggers, `$`, the
\* hotkeys, a command key, `?`, an ordinary character, Enter, backspace,
\* Tab, an arrow); any other mode is left again with escape.
NormalKeys ==
  IF mode = "NORMAL"
  THEN {<<":">>, <<"@">>, <<"!">>, <<"%">>, <<"#">>, <<"$">>, <<"q">>,
        <<"t">>, <<"A">>, <<"?">>, <<"R">>, <<"CR">>, <<"ESC">>, <<"DEL">>,
        <<"TAB">>, <<"ESC", "[", "A">>}
  ELSE {<<"ESC">>}

NextNormal ==
  \/ KeyData(NormalKeys, FALSE)
  \/ Microtasks
  \/ IoCompletes
  \/ ChildCloses

SpecNormal == Init /\ [][NextNormal]_vars

\* Rounds: commands run and print, help is shown, the screen is cleared,
\* and the last round is undone.
RoundKeys == {<<"R">>, <<"?">>, <<"FF">>}

NextRounds ==
  \/ KeyData(RoundKeys, FALSE)
  \/ ChildOutputs
  \/ ChildCloses
  \/ UndoCombo
  \/ IoCompletes

SpecRounds == Init /\ [][NextRounds]_vars

\* Combo: a command key, Ctrl+X (the byte 0x18) and `u`.
ComboKeys == {<<"R">>, <<"CAN">>, <<"u">>}

NextCombo ==
  \/ KeyData(ComboKeys, TRUE)
  \/ ChildCloses

SpecCombo == Init /\ [][NextCombo]_vars

\* ------------------------------------------------- command templates
\* A template is a sequence of characters in which the names QTY, TYPE,
\* INPUT and NOPE and the letter X stand for their upper-case letters.
UpperNames == {"QTY", "TYPE", "INPUT", "NOPE", "X"}

\* \W: the characters that are no word characters.
NonWord == {"$", "{", "}", ":", " ", "-", ".", "+"}

IsWord(c) == c \notin NonWord

\* \b after the word character at position j.
BoundaryAfter(t, j) == j = Len(t) \/ ~IsWord(t[j + 1])

\* The last position of the longest run from position i of characters of
\* the set cs (RunEndIn) or outside it (RunEndNotIn); i - 1 when there is none.
RunEndIn(t, i, cs) ==
  CHOOSE j \in (i - 1)..Len(t) :
    /\ \A k \in i..j : t[k] \in cs
    /\ j = Len(t) \/ t[j + 1] \notin cs

RunEndNotIn(t, i, cs) ==
  CHOOSE j \in (i - 1)..Len(t) :
    /\ \A k \in i..j : t[k] \notin cs
    /\ j = Len(t) \/ t[j + 1] \in cs

\* [A-Z_][A-Z0-9_]* from position i.
NameEnd(t, i) ==
  IF i <= Len(t) /\ t[i] \in UpperNames
  THEN RunEndIn(t, i, UpperNames \cup Digits)
  ELSE i - 1

At(t, i, c) == i <= Len(t) /\ t[i] = c

NoMatchAt == [len |-> 0, out |-> << >>]

MatchAt(len, out) == [len |-> len, out |-> out]

\* variables.hasOwnProperty(name) for the name at positions from..to.
HasOwnProperty(variables, t, from, to) ==
  from = to /\ t[from] \in DOMAIN variables

\* The callbacks of substitute: the value, or the match itself.
ValueOrMatch(variables, t, i, from, to, end) ==
  MatchAt(end - i + 1,
          IF HasOwnProperty(variables, t, from, to) THEN variables[t[from]]
          ELSE SubSeq(t, i, end))

\* /\$([A-Z_][A-Z0-9_]*):(\w+):([^\s"']+)/ at position i; formatWithSpec
\* of a type other than date is String(value).
MatchFormatSpec(variables, t, i) ==
  LET n == NameEnd(t, i + 1)
      ty == RunEndNotIn(t, n + 2, NonWord)
      f == RunEndNotIn(t, ty + 2, {" "})
  IN IF /\ At(t, i, "$") /\ n > i /\ At(t, n + 1, ":")
        /\ ty > n + 1 /\ At(t, ty + 1, ":") /\ f > ty + 1
     THEN ValueOrMatch(variables, t, i, i + 1, n, f)
     ELSE NoMatchAt

\* /\$\{([A-Z_][A-Z0-9_]*):(\w+):([^}]+)\}/ at position i.
MatchBraceFormatSpec(variables, t, i) ==
  LET n == NameEnd(t, i + 2)
      ty == RunEndNotIn(t, n + 2, NonWord)
      f == RunEndNotIn(t, ty + 2, {"}"})
  IN IF /\ At(t, i, "$") /\ At(t, i + 1, "{") /\ n > i + 1
        /\ At(t, n + 1, ":") /\ ty > n + 1 /\ At(t, ty + 1, ":")
        /\ f > ty + 1 /\ At(t, f + 1, "}")
     THEN ValueOrMatch(variables, t, i, i + 2, n, f + 1)
     ELSE NoMatchAt

\* /\$\{([A-Z_][A-Z0-9_]*)\}/ at position i.
MatchBraceName(variables, t, i) ==
  LET n == NameEnd(t, i + 2)
  IN IF At(t, i, "$") /\ At(t, i + 1, "{") /\ n > i + 1 /\ At(t, n + 1, "}")
     THEN ValueOrMatch(variables, t, i, i + 2, n, n + 1)
     ELSE NoMatchAt

\* /\$([A-Z_][A-Z0-9_]*)\b/ at position i.
MatchWordName(variables, t, i) ==
  LET n == NameEnd(t, i + 1)
  IN IF At(t, i, "$") /\ n > i /\ BoundaryAfter(t, n)
     THEN ValueOrMatch(variables, t, i, i + 1, n, n)
     ELSE NoMatchAt

\* /\$\{NAME\}/ and /\$NAME\b/ for one name, as _getExpandedCommand builds
\* them, and for INPUT.
MatchBrace(name, value, t, i) ==
  IF At(t, i, "$") /\ At(t, i + 1, "{") /\ At(t, i + 2, name)
     /\ At(t, i + 3, "}")
  THEN MatchAt(4, value) ELSE NoMatchAt

MatchWord(name, value, t, i) ==
  IF At(t, i, "$") /\ At(t, i + 1, name) /\ BoundaryAfter(t, i + 1)
  THEN MatchAt(2, value) ELSE NoMatchAt

\* The match of a pattern at position i.
Match(pat, env, t, i) ==
  CASE pat = "word" -> MatchWord(env.name, env.value, t, i)
    [] pat = "brace" -> MatchBrace(env.name, env.value, t, i)
    [] pat = "formatSpec" -> MatchFormatSpec(env.vars, t, i)
    [] pat = "braceFormatSpec" -> MatchBraceFormatSpec(env.vars, t, i)
    [] pat = "braceName" -> MatchBraceName(env.vars, t, i)
    [] pat = "wordName" -> MatchWordName(env.vars, t, i)

\* String.prototype.replace with a global pattern, from position i on.
RECURSIVE Replace(_, _, _, _)
Replace(pat, env, t, i) ==
  IF i > Len(t) THEN << >>
  ELSE IF Match(pat, env, t, i).len > 0
  THEN Match(pat, env, t, i).out
         \o Replace(pat, env, t, i + Match(pat, env, t, i).len)
  ELSE <<t[i]>> \o Replace(pat, env, t, i + 1)

Named(name, value) == [name |-> name, value |-> value]

\* The two replacements of $INPUT both functions begin with.
ReplaceInput(template, input) ==
  Replace("brace", Named("INPUT", input),
          Replace("word", Named("INPUT", input), template, 1), 1)

\* formatted[name] = formatValue(value, def)
Formatted(vals) ==
  [n \in DOMAIN vals |-> FormatValue(vals[n], GetDefinition(n))]

\* _getExpandedCommand: the loop over the variables, in their order.
RECURSIVE ExpandNames(_, _, _)
ExpandNames(result, formatted, k) ==
  IF k > Len(VarNames) THEN result
  ELSE ExpandNames(
         Replace("word", Named(VarNames[k], formatted[VarNames[k]]),
                 Replace("brace", Named(VarNames[k], formatted[VarNames[k]]),
                         result, 1), 1),
         formatted, k + 1)

\* _getExpandedCommand(template, input)
GetExpandedCommand(template, input, vals) ==
  ExpandNames(ReplaceInput(template, input), Formatted(vals), 1)

\* substitute(template, variables, input)
Substitute(template, variables, input) ==
  Replace("wordName", [vars |-> variables],
    Replace("braceName", [vars |-> variables],
      Replace("braceFormatSpec", [vars |-> variables],
        Replace("formatSpec", [vars |-> variables],
                ReplaceInput(template, input), 1), 1), 1), 1)

\* executeTemplate(template, input): the command given to executeCapture.
ExecuteTemplate(template, input, vals) ==
  Substitute(template, Formatted(vals), input)

\* The texts templates are made of, and the templates of up to MaxPieces
\* of them.
Pieces ==
  {<<"$", "QTY">>, <<"$", "{", "QTY", "}">>,
   <<"$", "TYPE">>, <<"$", "{", "TYPE", "}">>,
   <<"$", "INPUT">>, <<"$", "{", "INPUT", "}">>,
   <<"$", "QTY", ":", "d", ":", "d">>,
   <<"$", "{", "QTY", ":", "d", ":", "d", "}">>,
   <<"$", "NOPE">>, <<"d">>, <<" ">>, <<"X">>, <<"$">>}

Templates ==
  {Flatten(ps) : ps \in UNION {[1..n -> Pieces] : n \in 1..MaxPieces}}

Expansion(op, template, input, vals, echo, command) ==
  [op |-> op, template |-> template, input |-> input, vals |-> vals,
   echo |-> echo, command |-> command]

InitExpand ==
  /\ Started
  /\ \E template \in Templates, input \in {EmptyStr, <<"x">>},
        type \in {Str(<<"c">>), Str(<<"1">>)} :
       calc = Expansion("init", template, input,
                        [QTY |-> Whole(2), TYPE |-> type],
                        EmptyStr, EmptyStr)

\* _executeCurrentCommand: the echo of the Round.
Echo ==
  /\ calc.op = "init"
  /\ calc' = [calc EXCEPT !.op = "echo",
                          !.echo = GetExpandedCommand(calc.template,
                                                      calc.input, calc.vals)]
  /\ UNCHANGED appVars

\* executeCommand, executeTemplate: the command that is run.
Run ==
  /\ calc.op = "echo"
  /\ calc' = [calc EXCEPT !.op = "run",
                          !.command = ExecuteTemplate(calc.template,
                                                      calc.input, calc.vals)]
  /\ UNCHANGED appVars

NextExpand == Echo \/ Run

SpecExpand == InitExpand /\ [][NextExpand]_vars

\* --------------------------------------------------------------- claims
IsKeyEvent(e, type, name) == e.op = "key" /\ e.type = type /\ e.key = name

IsPrefix(s, t) == Len(s) <= Len(t) /\ SubSeq(t, 1, Len(s)) = s

SentTo(i, sig, pid) ==
  i \in 1..Len(signals) /\ signals[i].sig = sig /\ signals[i].pid = pid

\* C1: while a child stays registered the interrupts escalate. After the
\* first one the signal sent last is SIGINT to that child, after the second
\* it is SIGKILL, sent right after the SIGINT to the same child, so SIGKILL
\* never comes before SIGINT; the program is terminated by the third one
\* only, with both signals sent and the emergency cleanup done (spinner
\* stopped, terminal reset).
C1_InterruptEscalation ==
  /\ interruptCount \in 0..3
  /\ interruptCount = 1 =>
       SentTo(Len(signals), "SIGINT", currentChildProcess)
  /\ interruptCount >= 2 =>
       /\ SentTo(Len(signals), "SIGKILL", currentChildProcess)
       /\ SentTo(Len(signals) - 1, "SIGINT", currentChildProcess)
  /\ \A j \in 1..Len(signals) :
       signals[j].sig = "SIGKILL" => SentTo(j - 1, "SIGINT", signals[j].pid)
  /\ interruptCount = 3 <=> (exited /\ IsKeyEvent(last, "ctrl", "c"))
  /\ interruptCount = 3 => termReset /\ ~spinner

C1_Witness ==
  /\ exited
  /\ interruptCount = 3
  /\ Len(signals) = 2
  /\ signals[1].sig = "SIGINT"
  /\ signals[2].sig = "SIGKILL"
  /\ termReset

\* C2: without a registered child the loop is stopped by Ctrl+C only, at the
\* second of two presses with nothing between them: the exit counter grows
\* by one at a Ctrl+C that finds no child and at no other step, any other key
\* and the one-second timer set it back to 0, and the loop stops only at a
\* Ctrl+C that finds the counter at 1.
C2_DoubleCtrlCExits ==
  [][/\ exitPressCount' > exitPressCount =>
          /\ IsKeyEvent(last', "ctrl", "c")
          /\ currentChildProcess = 0
          /\ exitPressCount' = exitPressCount + 1
     /\ (last'.op = "key" /\ ~IsKeyEvent(last', "ctrl", "c")) =>
          exitPressCount' = 0
     /\ last'.op = "exitTimeout" => exitPressCount' = 0
     /\ (running /\ ~running') =>
          /\ IsKeyEvent(last', "ctrl", "c")
          /\ currentChildProcess = 0
          /\ exitPressCount = 1
     /\ (IsKeyEvent(last', "ctrl", "c") /\ currentChildProcess = 0
           /\ exitPressCount = 0) => running'
    ]_vars

C2_Witness ==
  /\ ~running
  /\ exitPressCount = 2
  /\ IsKeyEvent(last, "ctrl", "c")
  /\ spawned = 0

C4_EscapeRestoresEntryValues ==
  [][/\ (IsKeyEvent(last', "special", "escape") /\ entryValues # Null) =>
          (values' = entryValues /\ mode' = "NORMAL")
     /\ (mode = "INPUT" /\ last'.op = "key" /\ last'.type = "arrow") =>
          originalValues' = originalValues
    ]_vars

\* C5: Enter in INPUT requests the write of the values and changes none of
\* them; when the write completes or fails INPUT is left for NORMAL, the
\* values are as they were, the snapshot is discarded, and a failure has
\* printed its line.
C5_EnterPersistsAndLeaves ==
  [][/\ (mode = "INPUT" /\ IsKeyEvent(last', "special", "enter")) =>
          /\ ioTasks' = Append(ioTasks, Task("persist", 0))
          /\ values' = values
     /\ last'.op = "persist" =>
          /\ mode' = "NORMAL"
          /\ values' = values
          /\ originalValues' = Null
          /\ inputValue' = EmptyStr
          /\ lastOutput' = IF last'.ret THEN lastOutput ELSE "Error saving"
    ]_vars

C5_Witness ==
  /\ last.op = "persist"
  /\ ~last.ret
  /\ lastOutput = "Error saving"
  /\ mode = "NORMAL"
  /\ originalValues = Null
  /\ values["QTY"] = Whole(1)

\* C6 as stated: in INPUT each `+` increments the selected variable by one
\* step (within its range).
C6_PlusIncrements ==
  [][(mode = "INPUT" /\ IsKeyEvent(last', "char", "+")) =>
       values' = [values EXCEPT ![inputVar] =
                    IncrementValue(values[inputVar], GetDefinition(inputVar))]
    ]_vars

\* A typing keystroke of INPUT: a character, or a backspace on a buffer
\* that is not empty.
TypedInInput ==
  /\ mode = "INPUT"
  /\ last'.op = "key"
  /\ \/ last'.type = "char"
     \/ (IsKeyEvent(last', "special", "backspace") /\ inputValue # EmptyStr)

C8_RegistrationAndCounter ==
  [][/\ IsKeyEvent(last', "ctrl", "c") =>
          /\ last'.ret <=> currentChildProcess # 0
          /\ currentChildProcess = 0 =>
               (signals' = signals /\ interruptCount' = 0 /\ ~exited')
     /\ spawned' # spawned =>
          (currentChildProcess' = spawned' /\ interruptCount' = 0
             /\ onParentExitCallback')
     /\ last'.op = "childClose" => currentChildProcess' = 0
     /\ currentChildProcess' = 0 =>
          (interruptCount' = 0 /\ ~onParentExitCallback')
    ]_vars

C8_Witness ==
  /\ IsKeyEvent(last, "ctrl", "c")
  /\ ~last.ret
  /\ currentChildProcess = 0
  /\ interruptCount = 0
  /\ Len(signals) = 2
  /\ exitPressCount = 1

\* C9: whatever the mode, one escape leaves the mode NORMAL.
C9_EscapeToNormal ==
  [][IsKeyEvent(last', "special", "escape") => mode' = "NORMAL"]_vars

C9_Witness ==
  /\ IsKeyEvent(last, "special", "escape")
  /\ last.from = "VOICE"
  /\ mode = "NORMAL"
  /\ ~polling

\* _getState().buffer: what the prompt shows as the buffer.
ShownBuffer == IF inlineBuffer # EmptyStr THEN inlineBuffer ELSE buffer

\* C10 as stated: the buffer of the mode machine and the raw text of INPUT
\* are never both non-empty, and the text the prompt shows is the buffer of
\* the current mode: the raw text in INPUT, the mode machine's buffer in CMD,
\* LLM, SHELL and WORD.
C10_OneBufferAtATime ==
  /\ ~(buffer # EmptyStr /\ inputValue # EmptyStr)
  /\ mode = "INPUT" => ShownBuffer = inputValue
  /\ mode \in {"CMD", "LLM", "SHELL", "WORD"} => ShownBuffer = buffer

\* The mode a key pressed in NORMAL leads to, as the shortcut list gives it.
NormalKeyTarget(e) ==
  IF e.type # "char" THEN "NORMAL"
  ELSE IF e.key = ":" THEN "CMD"
  ELSE IF e.key = "@" THEN "LLM"
  ELSE IF e.key = "!" THEN "SHELL"
  ELSE IF e.key = "%" THEN "WORD"
  ELSE IF e.key = "#" THEN "VOICE"
  ELSE IF e.key = "$" \/ HasHotkey(e.key) THEN "INPUT"
  ELSE "NORMAL"

\* C11: a key pressed in NORMAL leads to CMD for `:`, to INPUT on the
\* variable of the hotkey for a hotkey, to INPUT on the first variable for
\* `$`, to LLM, SHELL, WORD, VOICE for `@`, `!`, `%`, `#`, and leaves the
\* mode NORMAL for every other key.
C11_NormalTriggers ==
  [][(mode = "NORMAL" /\ last'.op = "key") =>
       /\ mode' = NormalKeyTarget(last')
       /\ (last'.type = "char" /\ last'.key = "$") =>
            inputVar' = GetFirstVariable
       /\ (last'.type = "char" /\ HasHotkey(last'.key)) =>
            inputVar' = FindByHotkey(last'.key)
    ]_vars

C11_Witness ==
  /\ IsKeyEvent(last, "char", "t")
  /\ last.from = "NORMAL"
  /\ mode = "INPUT"
  /\ inputVar = "TYPE"
  /\ buffer # EmptyStr

\* C12: escape pressed in NORMAL leaves the mode NORMAL and the composition
\* buffer empty: the buffer the status bar shows is empty afterwards, and an
\* Enter that follows the escape executes nothing (it prints nothing, starts
\* no child and suspends no handler).
C12_EscapeClearsComposition ==
  [][/\ (mode = "NORMAL" /\ IsKeyEvent(last', "special", "escape")) =>
          /\ mode' = "NORMAL"
          /\ ShownBuffer' = EmptyStr
     /\ (/\ mode = "NORMAL"
         /\ IsKeyEvent(last, "special", "escape") /\ last.from = "NORMAL"
         /\ IsKeyEvent(last', "special", "enter")) =>
          /\ lastOutput' = lastOutput
          /\ spawned' = spawned
          /\ microQ' = microQ /\ ioTasks' = ioTasks
    ]_vars

\* C13: Enter in CMD hands the buffer to the controller and the mode is
\* NORMAL once the command has been executed; Enter on a non-empty buffer in
\* SHELL and WORD executes it, clears it and stays in the mode; in LLM it
\* stays in the mode and the buffer is cleared once the configuration has
\* been read; and LLM, SHELL and WORD are left by an escape key only.
C13_EnterAndLeave ==
  [][/\ (mode = "CMD" /\ IsKeyEvent(last', "special", "enter")) =>
          /\ microQ' = Append(microQ, Task("cmdEnter", 0))
          /\ (buffer # EmptyStr /\ buffer # <<"q">>) =>
               lastOutput' = "Unknown command"
     /\ last'.op = "cmdEnter" => mode' = "NORMAL"
     /\ (/\ mode \in {"SHELL", "WORD"} /\ buffer # EmptyStr
         /\ IsKeyEvent(last', "special", "enter")) =>
          /\ mode' = mode
          /\ buffer' = EmptyStr
          /\ (mode = "SHELL" \/ ToLowerCase(buffer) \in CommandWords) =>
               (spawned' = spawned + 1 /\ spinner')
     /\ (/\ mode = "LLM" /\ buffer # EmptyStr
         /\ IsKeyEvent(last', "special", "enter")) =>
          (mode' = "LLM" /\ Len(microQ') = Len(microQ) + 1)
     /\ last'.op \in {"llmConfig", "llmAgentOnly", "llmAgent"} =>
          /\ mode' = "LLM"
          /\ buffer' = EmptyStr \/ microQ' = <<Task("llmAgent", 0)>>
     /\ (mode \in {"LLM", "SHELL", "WORD"} /\ mode' # mode) =>
          IsKeyEvent(last', "special", "escape")
    ]_vars

\* When the last Round is closed, undoing it removes that Round and no
\* other from the log, and the number of lines erased is the number of
\* rows the terminal was sent between its startRound and its endRound:
\* the echoed command and the output lines.
UndoCount ==
  [][(last'.op = "undo" /\ rounds # << >> /\ ~roundOpen) =>
       /\ rounds' = SubSeq(rounds, 1, Len(rounds) - 1)
       /\ erased' = Last(rounds).rows
    ]_vars

\* C14: when the last Round is closed, undoing it removes that Round and no
\* other from the log, as many lines are erased from the bottom as the
\* Round printed, and these are the lines of that Round: no line printed
\* outside the Round lies below them.
C14_UndoRemovesLastRound ==
  [][(last'.op = "undo" /\ rounds # << >> /\ ~roundOpen) =>
       /\ rounds' = SubSeq(rounds, 1, Len(rounds) - 1)
       /\ erased' = Last(rounds).rows
       /\ ~Last(rounds).below
    ]_vars

\* C15: undo on an empty log changes nothing: no line is erased, the log
\* stays empty, nothing is printed and no handler is suspended; and an
\* undo whose log has been emptied while it was awaited erases nothing.
C15_UndoOnEmptyLog ==
  [][/\ (last'.op = "undoCombo" /\ rounds = << >>) =>
          /\ rounds' = << >>
          /\ erased' = erased
          /\ lastOutput' = lastOutput /\ stray' = stray
          /\ ioTasks' = ioTasks /\ microQ' = microQ
          /\ running' /\ ~exited'
     /\ (last'.op = "undo" /\ rounds = << >>) =>
          (rounds' = << >> /\ erased' = erased)
    ]_vars

C15_Witness ==
  /\ last.op = "undoCombo"
  /\ rounds = << >>
  /\ erased = 2
  /\ ioTasks = << >>

\* C16: every line printed since the last clear is counted in exactly one
\* Round: none was printed while no Round was the current one, and the
\* count of each Round is the number of lines printed while it was, so
\* that the counts add up to the lines printed.
C16_EveryLineInOneRound ==
  /\ ~stray
  /\ \A i \in 1..Len(rounds) : rounds[i].lines = rounds[i].rows

\* A command is executing: a handler is suspended between startSpinner()
\* and its finally block.
CommandPending ==
  \E i \in 1..Len(ioTasks) :
    ioTasks[i].kind \in {"execCurrent", "execBuffer", "llmWrite"}

\* C17: whenever no command is executing the spinner is stopped, and it is
\* stopped once the emergency exit of the third interrupt has run, whatever
\* is still executing then.
C17_SpinnerStopped == (~CommandPending \/ interruptCount = 3) => ~spinner

C17_Witness ==
  /\ exited /\ interruptCount = 3
  /\ CommandPending
  /\ ~spinner

\* C18: in a state left by a render or a printOutput the scroll region of
\* the terminal ends at rows - h, rows being the terminal's rows and h the
\* height of the status lines of the mode, and the output did not go to a
\* status row.
C18_ScrollRegion ==
  /\ drawn => scrollBottom = termRows - GetStatusHeight(mode)
  /\ ~wroteStatus

\* C19: the Ctrl+X byte arms the combo prefix, and the `u` that follows it
\* is not handled by the mode but asks for the undo of the last round.
C19_CtrlXUndo ==
  [][/\ (last'.op = "key" /\ last'.type = "unknown") => awaitingCtrlXCombo'
     /\ (/\ last.op = "key" /\ last.type = "unknown"
         /\ last'.op = "key" /\ IsKeyEvent(last', "char", "u")) =>
          /\ buffer' = buffer /\ inlineBuffer' = inlineBuffer
          /\ rounds # << >> =>
               \E i \in 1..Len(ioTasks') : ioTasks'[i].kind = "undo"
    ]_vars

\* The range of a numeric definition holds the result.
InRange(def, v) ==
  IsNum(v) /\ def.range[1] <= v.n /\ v.n <= def.range[2]

\* C20: incrementValue and decrementValue of an int or float variable with
\* a range return a value of the range for every number, the maximum when
\* incrementing from the maximum and the minimum when decrementing from
\* the minimum; a date is kept in its parsed range likewise.
C20_ClampedToRange ==
  calc.op \in {"inc", "dec"} =>
    /\ (calc.def.type \in {"int", "float"} /\ Len(calc.def.range) = 2) =>
         /\ InRange(calc.def, calc.result)
         /\ (calc.op = "inc" /\ calc.arg.n = calc.def.range[2]) =>
              calc.result.n = calc.def.range[2]
         /\ (calc.op = "dec" /\ calc.arg.n = calc.def.range[1]) =>
              calc.result.n = calc.def.range[1]
    /\ (calc.def.type = "date" /\ Len(calc.def.range) = 2) =>
         /\ calc.def.range[1] <= calc.result.n
         /\ calc.result.n <= calc.def.range[2]

\* The same for the definitions of type float, of type date, and of type
\* int with a range of integers.
ClampedWithIntegerRange ==
  (/\ calc.op \in {"inc", "dec"}
   /\ calc.def.type = "int"
   /\ Len(calc.def.range) = 2
   /\ (calc.def.range[1] % Unit # 0 \/ calc.def.range[2] % Unit # 0))
  \/ C20_ClampedToRange

\* The 1-based position of a value in an enum range of distinct values.
PositionIn(range, v) == CHOOSE i \in 1..Len(range) : range[i] = v

InEnumRange(def, v) == \E i \in 1..Len(def.range) : def.range[i] = v

\* C21: for an enum variable incrementValue returns the element after the
\* given one and decrementValue the element before it, the first after the
\* last and the last before the first, and a decrementValue applied to the
\* result of an incrementValue of a value of the range returns that value.
C21_EnumRotates ==
  [][(calc.def.type = "enum" /\ InEnumRange(calc.def, calc'.arg)) =>
       LET range == calc.def.range
           p == PositionIn(range, calc'.arg)
       IN /\ calc'.op = "inc" =>
               calc'.result = range[IF p = Len(range) THEN 1 ELSE p + 1]
          /\ calc'.op = "dec" =>
               calc'.result = range[IF p = 1 THEN Len(range) ELSE p - 1]
          /\ (calc.op = "inc" /\ calc'.op = "dec"
                /\ InEnumRange(calc.def, calc.arg)) =>
               calc'.result = calc.arg
    ]_vars

\* The last value of a range of three has been incremented to the first
\* and decremented back.
C21_Witness ==
  /\ calc.op = "dec"
  /\ calc.def.type = "enum"
  /\ Len(calc.def.range) = 3
  /\ calc.arg = calc.def.range[1]
  /\ calc.result = calc.def.range[3]

\* C22: parseValue(formatValue(v, def), def) = v for every valid value v of
\* an int, float or enum definition, with or without a printf format.
C22_RoundTrip == calc.op = "parse" => calc.result = calc.arg

\* The formats that drop a part of the value: a float that is not an
\* integer printed with no fraction digit (%d, %03d, %.0f), and a negative
\* number padded with zeros on the left of its sign (%03d).
Lossy(def, v) ==
  /\ def.type \in {"int", "float"}
  /\ def.format # EmptyStr
  /\ LET m == MatchFormat(def.format)
     IN \/ /\ v.n % Unit # 0
           /\ m.specifier = "d" \/ m.precision = Str(<<"0">>)
        \/ /\ v.n < 0
           /\ Len(m.width) > 0
           /\ Len(NumStr(Floor(v.n))) < 3

\* The round trip for every other definition and value.
RoundTripWhenExact ==
  (calc.op = "parse" /\ ~Lossy(calc.def, calc.arg)) => calc.result = calc.arg

\* The decoder has handled every chunk of the stream.
DecodeDone ==
  calc.op \in {"data", "key"} /\ calc.i >= Len(calc.str) /\ calc.rest = << >>

\* The number of bytes of the first k keypresses.
RECURSIVE BytesOf(_, _)
BytesOf(keys, k) == IF k = 0 THEN 0 ELSE BytesOf(keys, k - 1) + Len(keys[k])

\* A chunk ends inside the bytes of one keypress.
SplitsSequence ==
  \E c \in calc.cuts : \A k \in 1..Len(calc.keys) : BytesOf(calc.keys, k) # c

\* The events of the keypresses, and the events emitted so far.
Expected == [k \in 1..Len(calc.keys) |-> ParseKey(calc.keys[k])]

Emitted == [k \in 1..Len(calc.events) |-> calc.events[k].key]

\* C23 as stated: the decoder emits one classified event for each keypress,
\* in arrival order, also when a chunk holds several keypresses, one arrow
\* event for each arrow sequence, and the same events however the stream
\* is cut into chunks, as long as no escape sequence is split.
C23_OneEventPerKeypress ==
  (calc.op \in {"data", "key"} /\ ~SplitsSequence) =>
    /\ IsPrefix(Emitted, Expected)
    /\ DecodeDone => Emitted = Expected

\* Every keypress sends one character or a CSI sequence.
CharOrCsi ==
  \A k \in 1..Len(calc.keys) :
    \/ Len(calc.keys[k]) = 1
    \/ calc.keys[k][1] = "ESC" /\ calc.keys[k][2] = "["

\* An Escape keypress is followed by a `[` in its chunk.
EscapeBeforeBracket ==
  \E k \in 1..(Len(calc.keys) - 1) :
    /\ calc.keys[k] = <<"ESC">>
    /\ calc.keys[k + 1][1] = "["
    /\ BytesOf(calc.keys, k) \notin calc.cuts

\* The same for keypresses that send one character or a CSI sequence, an
\* Escape keypress not being followed by `[` in its chunk.
OneEventPerCharOrCsi ==
  (/\ calc.op \in {"data", "key"}
   /\ ~SplitsSequence
   /\ CharOrCsi
   /\ ~EscapeBeforeBracket) =>
    /\ IsPrefix(Emitted, Expected)
    /\ DecodeDone => Emitted = Expected

\* The sequences parseKey knows.
KnownSequences ==
  {<<"ESC", "[", "A">>, <<"ESC", "[", "B">>, <<"ESC", "[", "C">>,
   <<"ESC", "[", "D">>, <<"ESC", "[", "3", "~">>, <<"ESC", "[", "Z">>}

\* The bytes of the stream the decoder has gone past.
Consumed(c) ==
  SubSeq(Flatten(c.keys), 1,
         Len(Flatten(c.keys)) - Len(Flatten(c.rest)) - (Len(c.str) - c.i))

C25_JogLikeArrows ==
  [][/\ (last'.op = "jog" /\ mode # "INPUT") =>
          UNCHANGED <<values, buffer, inputBuffer, inlineBuffer, inputValue,
                      inputVar, mode>>
     /\ (/\ mode = "INPUT"
         /\ \/ last'.op = "jog"
            \/ IsKeyEvent(last', "arrow", "up")
            \/ IsKeyEvent(last', "arrow", "down")) =>
          LET def == GetDefinition(inputVar)
              up == IF last'.op = "jog" THEN last'.key = "CW"
                    ELSE last'.key = "up"
          IN /\ values' =
                  [values EXCEPT ![inputVar] =
                     IF up THEN IncrementValue(values[inputVar], def)
                     ELSE DecrementValue(values[inputVar], def)]
             /\ inputValue' = FormatValue(values'[inputVar], def)
             /\ inlineBuffer' = inputValue'
             /\ UNCHANGED <<mode, inputVar, buffer>>
    ]_vars

\* The wheel was turned clockwise in INPUT and QTY went from 2 to 3.
C25_Witness ==
  /\ last.op = "jog"
  /\ last.key = "CW"
  /\ last.from = "INPUT"
  /\ inputVar = "QTY"
  /\ values["QTY"] = Whole(3)
  /\ inputValue = <<"3">>

\* C26: whatever start() and stop() calls were made, at most one handle of
\* the device is open and at most one polling loop (a timer set for pollFn
\* or a read in flight) is scheduled, and a start() that finds no device
\* returns false.
C26_StartIdempotent ==
  /\ Cardinality(jog.open) <= 1
  /\ jog.timers + Len(jog.reads) <= 1
  /\ last.op = "jogListed" =>
       \/ jog.returned = "false"
       \/ jog.opening > 0

\* C27: once stop() has been called, and until start() is called again, no
\* direction event is emitted and no read is issued on the device, and
\* when its closing has settled no handle of the device is open.
C27_StopHalts ==
  /\ [][(jog.stopped /\ jog'.stopped) =>
          last'.op \notin {"jogEmit", "jogRead"}]_vars
  /\ []((jog.stopped /\ jog.closing = << >> /\ jog.opening = 0) =>
          jog.open = {})

\* C28: in VOICE a key other than escape changes neither the mode nor a
\* buffer nor a value nor the running state; escape returns to NORMAL and
\* stops the voice listener, which then is not polling while the mode is
\* not VOICE.
C28_VoiceIgnoresKeys ==
  /\ [][(mode = "VOICE" /\ last'.op = "key") =>
          IF IsKeyEvent(last', "special", "escape")
          THEN mode' = "NORMAL" /\ ~polling'
          ELSE UNCHANGED <<mode, buffer, inputBuffer, inlineBuffer,
                           inputValue, values, running>>]_vars
  /\ [](mode # "VOICE" => ~polling)

\* The same for the keys that reach _handleVoiceMode (every key but Ctrl+C,
\* Ctrl+D and Ctrl+L), and for the step of the escape key alone.
VoiceIgnoresModeKeys ==
  [][(mode = "VOICE" /\ last'.op = "key") =>
       IF IsKeyEvent(last', "special", "escape")
       THEN mode' = "NORMAL" /\ ~polling'
       ELSE last'.type = "ctrl"
              \/ UNCHANGED <<mode, buffer, inputBuffer, inlineBuffer,
                             inputValue, values, running>>]_vars

\* C29: a child that exits with a non-zero code, is killed by a signal or
\* cannot be spawned settles the promise of the executor with a numeric exit
\* code; in that step no child is left registered, the Round is ended, the
\* spinner is stopped, the process has not exited, and a Controller that was
\* running is running still, with no continuation left between it and the
\* next key.
C29_ChildFailureSurvived ==
  [][(last'.op \in {"childClose", "childError"}
        /\ last'.type \in Outcomes \ {"exit0"}) =>
       /\ last'.key \in {NatStr(n) : n \in 0..2}
       /\ last'.type \in {"exitN", "spawnError"} => last'.key # NatStr(0)
       /\ Len(ioTasks') = Len(ioTasks) - 1
       /\ currentChildProcess' = 0
       /\ interruptCount' = 0
       /\ ~roundOpen'
       /\ ~spinner'
       /\ ~exited'
       /\ running' = running
       /\ microQ' = << >>
    ]_vars

C29_Witness ==
  /\ last.op = "childClose"
  /\ last.type = "signal"
  /\ Len(signals) >= 1
  /\ spawned = 2
  /\ alive = {}
  /\ ~roundOpen
  /\ mode = "NORMAL"

\* C30: a character typed in CMD, LLM, SHELL or WORD is appended to the
\* buffer of the mode and does nothing else: the mode stays, INPUT is not
\* entered, no variable changes, no command or child is started, no Round is
\* opened and no continuation is queued, whether the character is a hotkey,
\* a command key or a trigger of NORMAL.
C30_CharOnlyAppends ==
  [][(/\ last'.op = "key"
      /\ last'.type = "char"
      /\ mode \in {"CMD", "LLM", "SHELL", "WORD"}) =>
       /\ buffer' = Append(buffer, last'.key)
       /\ UNCHANGED <<mode, inputVar, inputValue, inputBuffer, values,
                      originalValues, spawned, alive, currentChildProcess,
                      rounds, roundOpen, spinner, ioTasks, microQ, polling,
                      running, exited, currentAgent>>
    ]_vars

\* In WORD the hotkey of QTY was typed after the command key R.
C30_Witness ==
  /\ IsKeyEvent(last, "char", "q")
  /\ last.from = "WORD"
  /\ mode = "WORD"
  /\ buffer = <<"R", "q">>
  /\ values["QTY"] = GetDefaultValue(Definitions.QTY)

\* The default a definition declares: its `default` field, or the default of
\* its type when it has none.
DeclaredDefault(def) ==
  IF def.default # Undef THEN EvalDefault(def.default) ELSE TypeDefault(def)

\* C31 as stated: `:unset VAR` leaves VAR at the default its definition
\* declares, whatever its value was and whatever value was persisted for it;
\* for an unknown name nothing changes.
C31_UnsetGivesDefault ==
  calc.op = "unset" =>
    IF calc.name = "VAR" THEN calc.value = DeclaredDefault(calc.def)
    ELSE ~calc.ret

\* What holds: `:unset VAR` leaves VAR at the persisted value the activity
\* was loaded with when there is one, else at the declared default; for an
\* unknown name nothing changes.
UnsetGivesLoadedValue ==
  [][calc'.op = "unset" =>
       IF calc'.name = "VAR"
       THEN calc'.value = (IF calc.def.value # Undef
                           THEN ParseLiteralValue(calc.def.value, calc.def)
                           ELSE DeclaredDefault(calc.def))
       ELSE calc'.value = calc.value /\ ~calc'.ret]_vars

\* The command keys of more than one character.
LongCommandKeys == {k \in CommandKeys : Len(k) > 1}

\* The text is on the way to a long command key, or begins with one.
TypesLongCommand(text) ==
  \E k \in LongCommandKeys : IsPrefix(text, k) \/ IsPrefix(k, text)

\* C32 as stated: in NORMAL a character that continues the typing of a
\* multi-character command key, or of the free text after it, is added to
\* the buffer and the mode stays NORMAL; Enter on a buffer that begins with
\* such a key starts that command.
C32_TypedCommandRuns ==
  [][(last'.op = "key" /\ mode = "NORMAL" /\ running) =>
       /\ (last'.type = "char" /\ TypesLongCommand(Append(buffer, last'.key)))
            => (mode' = "NORMAL" /\ buffer' = Append(buffer, last'.key))
       /\ (IsKeyEvent(last', "special", "enter")
              /\ \E k \in LongCommandKeys : IsPrefix(k, buffer))
            => spawned' = spawned + 1
    ]_vars

\* C33 as stated: at most one child is running, and no command is started
\* (no child spawned, no Round opened) while a child is running.
C33_OneCommandInFlight ==
  /\ [](Cardinality(alive) <= 1)
  /\ [][alive # {} => (spawned' = spawned /\ Len(rounds') <= Len(rounds))]_vars

\* C34 as stated: while a child is running, a running child is the one
\* registered with the interrupt manager, and a Ctrl+C pressed then is
\* reported handled and does not count toward the exit confirmation.
C34_RunningChildRegistered ==
  /\ [](alive # {} => currentChildProcess \in alive)
  /\ [][(IsKeyEvent(last', "ctrl", "c") /\ running /\ alive # {}) =>
         (last'.ret /\ exitPressCount' = exitPressCount /\ running')]_vars

\* With one child at a time the running child is the registered one.
SingleChildRegistered ==
  Cardinality(alive) = 1 /\ spawned = 1 => currentChildProcess \in alive

C36_PersistedIsStore ==
  [][/\ \A i \in 1..Len(ioTasks) :
          (/\ last'.op = "persistWrite" /\ last'.ret
           /\ ioTasks[i].kind = "persistWrite"
           /\ ioTasks' = RemoveAt(ioTasks, i)
           /\ mode = "INPUT" /\ mode' = "NORMAL") =>
            ioTasks[i].data = PersistedValues(values')
     /\ (/\ mode = "INPUT"
         /\ \E i \in 1..Len(ioTasks) : ioTasks[i].kind = "persistWrite"
         /\ last'.op \in {"key", "jog"}) =>
            values' = values
    ]_vars

\* What holds: what is written is the store's values when readFile resolved.
WrittenIsStoreAtRead ==
  [][last'.op = "persistRead" =>
       \E i \in 1..Len(ioTasks) :
         /\ ioTasks[i].kind = "persist"
         /\ ioTasks'[i].kind = "persistWrite"
         /\ ioTasks'[i].data = PersistedValues(values)
         /\ values' = values]_vars

\* C37: every int or float variable that declares a range holds a number of
\* the range, whatever is typed, erased, stepped with the arrows or with the
\* jog wheel.
C37_ValuesInRange ==
  \A n \in DOMAIN values :
    (GetDefinition(n).type \in {"int", "float"}
       /\ Len(GetDefinition(n).range) = 2) =>
      InRange(GetDefinition(n), values[n])

\* What holds: a step of an arrow or of the jog wheel leaves a number of
\* the range in the range.
StepsKeepRange ==
  [][(/\ mode = "INPUT" /\ inputVar = "QTY"
      /\ InRange(GetDefinition("QTY"), values.QTY)
      /\ \/ last'.op = "jog"
         \/ last'.op = "key" /\ last'.type = "arrow") =>
       InRange(GetDefinition("QTY"), values'.QTY)]_vars

\* C38: in every reachable state in which the mode is not VOICE the voice
\* listener is not polling (its flag is false and its timer is cleared; the
\* two are set and cleared together).
C38_PollsOnlyInVoice == mode # "VOICE" => ~polling

\* What holds: outside VOICE polling begins only where a start() of the
\* listener that was pending when VOICE was left completes.
PollingBeginsAtLateStart ==
  [][(mode # "VOICE" /\ ~polling /\ polling') =>
       last'.op = "voiceStart"]_vars

\* The continuations of _handleVoiceInput that will execute a command.
VoiceCommands(q) == Cardinality({i \in 1..Len(q) : q[i].kind = "voiceCommand"})

\* C39: a transcription handed to the listeners starts at most one command,
\* and none unless the mode is VOICE at that moment, however many listeners
\* the entries into VOICE have registered; the command is one child.
C39_OneCommandPerTranscription ==
  [][/\ last'.op = "voice" =>
          /\ VoiceCommands(microQ') <= VoiceCommands(microQ) + 1
          /\ VoiceCommands(microQ') > VoiceCommands(microQ) =>
               mode = "VOICE" /\ last'.ret /\ mode' = "NORMAL"
          /\ mode # "VOICE" => UNCHANGED <<microQ, mode, spawned, alive>>
          /\ spawned' = spawned
     /\ last'.op = "voiceCommand" =>
          /\ spawned' = spawned + 1
          /\ VoiceCommands(microQ') = VoiceCommands(microQ) - 1
    ]_vars

C39_Witness ==
  /\ last.op = "voiceCommand"
  /\ calc.listeners = MaxListeners
  /\ spawned = 1
  /\ mode = "NORMAL"

\* C40: the command echoed at the start of a Round is the command that is
\* run, for every template, $INPUT text and values.
C40_EchoIsCommand == calc.op = "run" => calc.echo = calc.command

\* The scenario of the claim: `d $QTY` is echoed and run as `d 2`.
EchoOfPlainTemplate ==
  (calc.op = "run" /\ calc.template = <<"d", " ", "$", "QTY">>) =>
    calc.echo = <<"d", " ", "2">> /\ calc.command = <<"d", " ", "2">>

\* What holds: the two are the same string for the templates without the
\* $VAR:type:format syntax in which no $VAR is followed at once by another
\* placeholder.
EchoIsCommandWhenApart ==
  (/\ calc.op = "run"
   /\ \A i \in 1..Len(calc.template) : calc.template[i] # ":"
   /\ \A i \in 1..(Len(calc.template) - 1) :
        calc.template[i] \in UpperNames => calc.template[i + 1] # "$") =>
    calc.echo = calc.command

====
